---- MODULE Spec2Model ----
(***************************************************************************)
(* TrialScout batch driver (tool/src/runner/batch): the resumable staged   *)
(* state machine over the Progress file, the LLM batch service it talks   *)
(* to, and the chunk packing of RESULT_GEN_PREPARATION.                    *)
(*                                                                         *)
(* Specifications:                                                         *)
(*   Spec            the batch driver with kills, torn Progress writes,    *)
(*                   failed uploads and restarts;                          *)
(*   PackSpec        the chunk-packing loop of RESULT_GEN_PREPARATION on   *)
(*                   arbitrary request sizes;                              *)
(*   LiveSpec        the batch driver without kills, with the fairness of  *)
(*                   the event loop, the batch service and the next-day    *)
(*                   operator;                                             *)
(*   LiveDriverSpec  the live driver (runner/live.js) with crashes;        *)
(*   SummarySpec     the summary builders on arbitrary publications;       *)
(*   DiscoverySpec   publication discovery for one registration;           *)
(*   DateFilterSpec  the date filters on arbitrary publication lists;      *)
(*   CacheSpec       the read-through file cache under concurrent calls;   *)
(*   PubmedSpec      the global PubMed queue;                              *)
(*   RegistrySpec    registry detection and registration discovery;        *)
(*   RequestSpec     the classification requests of arbitrary input tables;*)
(*   BodySpec        the request bodies built from pairs of registrations. *)
(***************************************************************************)
EXTENDS Integers, Sequences, FiniteSets, TLC

(***************************************************************************)
(* Bounds of the model.                                                    *)
(***************************************************************************)
\* kills, torn writes and failed calls per behaviour
MaxKills == 1
\* calendar days a behaviour spans
MaxDay == 2
\* the packing specification: requests per table, bytes per request, and
\* the ranges of batch.maxRequestsPerBatch and of
\* floor(batch.maxBytesPerBatch * batch.safetyBuffer)
MaxRequests == 3
MaxRequestBytes == 3
MaxBatchRequests == 2
MaxBatchBytes == 2

(***************************************************************************)
(* The input universe.                                                     *)
(***************************************************************************)
NoId == ""
TrialIds == {"T1"}
\* input tables: rows with or without a trial id
InputTables == { <<"T1", NoId>> }
\* PMIDs a discovery can return, in the order the strategies return them
PmidLists == { <<>>, <<1>>, <<1, 2>> }
Pmids == {1, 2}
Pairs == TrialIds \X Pmids

STAGES == [ PREP |-> "PREP",
            QUERY_GEN_UPLOAD |-> "QUERY_GEN_UPLOAD",
            QUERY_GEN_POLL |-> "QUERY_GEN_POLL",
            QUERY_GEN_PROCESS |-> "QUERY_GEN_PROCESS",
            PUB_DISCOVERY |-> "PUB_DISCOVERY",
            RESULT_GEN_PREPARATION |-> "RESULT_GEN_PREPARATION",
            RESULT_GEN_UPLOAD |-> "RESULT_GEN_UPLOAD",
            RESULT_GEN_POLL |-> "RESULT_GEN_POLL",
            RESULT_GEN_PROCESS |-> "RESULT_GEN_PROCESS",
            FINALIZE |-> "FINALIZE",
            COST_CALCULATION |-> "COST_CALCULATION",
            COMPLETE |-> "COMPLETE" ]

VARIABLES
  \* ---- the driver process
  pc,          \* position of the process ("stopped" when no process runs)
  ret,         \* where a pending saveProgress continues
  cur,         \* currentStage of main's loop ("none" between stages)
  i,           \* loop index of the running stage
  loc,         \* locals of the running stage
  progress,    \* the Progress object of the process
  \* ---- the file system
  disk,        \* the Progress file
  inputFiles,  \* result_gen_input_chunk_<n>.jsonl: the requests of each chunk
  results,     \* result_results/<custom_id>.json
  sidecars,    \* json/<trialId>.json
  csv,         \* the output CSV, header aside
  \* ---- the environment
  rows,        \* the input table
  config,      \* the configuration file: the batch.* settings
  day,         \* the current date
  regAnswer,   \* what the registry answers for each trial
  pubAnswer,   \* what publication discovery answers for each trial
  llmAnswer,   \* what the classifier answers for each request
  svc,         \* the batch service: status of the latest batch of each chunk
  qsvc,        \* the batch service: status of the latest query-generation batch
  \* ---- history
  created,     \* how many batches were created for each chunk index
  createdTok,  \* estimatedTokens of the batches created on each day
  kills,       \* kills, torn writes and failed calls so far
  lateKill,    \* a kill happened after the last external call of the run
  lastGood,    \* the last Progress whose write completed
  chunkHigh,   \* the furthest status each chunk has held in the Progress file
  \* ---- the packing specification
  pk,          \* state of the packing loop
  \* ---- the components, each under a specification of its own
  lv,          \* the live driver: its process, Progress file, sidecars and CSV
  sm,          \* the summary builders of FINALIZE and of the live driver
  dc,          \* publication discovery for one registration
  df,          \* the date filters on one list of publications
  ch,          \* the read-through file cache and the calls on it
  pq,          \* the global PubMed queue and the calls through it
  rg,          \* registration discovery for one trial id
  rq,          \* the classification requests of one input table
  rb           \* the request bodies built from two registrations

vars == << pc, ret, cur, i, loc, progress, disk, inputFiles, results, sidecars,
           csv, rows, config, day, regAnswer, pubAnswer,
           llmAnswer, svc, qsvc, created, createdTok, kills, lateKill,
           lastGood, chunkHigh, pk, lv, sm, dc, df, ch, pq, rg, rq, rb >>

compVars == << lv, sm, dc, df, ch, pq, rg, rq, rb >>

(***************************************************************************)
(* Small helpers.                                                          *)
(***************************************************************************)
Range(f) == { f[x] : x \in DOMAIN f }

RECURSIVE FlattenSeq(_)
FlattenSeq(ss) == IF ss = <<>> THEN <<>> ELSE Head(ss) \o FlattenSeq(Tail(ss))

\* positions of the chunk list, ascending, whose status is in the set
RECURSIVE PositionsFrom(_, _, _)
PositionsFrom(chunks, k, statuses) ==
  IF k > Len(chunks) THEN <<>>
  ELSE (IF chunks[k].status \in statuses THEN <<k>> ELSE <<>>)
       \o PositionsFrom(chunks, k + 1, statuses)

ChunksWithStatus(chunks, statuses) == PositionsFrom(chunks, 1, statuses)

(***************************************************************************)
(* RESULT_GEN_PREPARATION: packing requests into chunks.                   *)
(* A request is [id, tokens, bytes]; a chunk is [requests, tokens, bytes]. *)
(***************************************************************************)
EmptyChunk == [ requests |-> <<>>, tokens |-> 0, bytes |-> 0 ]

\* the packing state before the first request: one empty current chunk
PackStart == [ sealed |-> <<>>, current |-> EmptyChunk ]

\* the chunk limit test of the loop body
ChunkOverflows(chunk, req, lim) ==
  \/ Len(chunk.requests) >= lim.maxRequestsPerBatch
  \/ chunk.bytes + req.bytes > lim.effectiveMaxBytes

\* one iteration of the loop body: seal the current chunk when the request
\* does not fit, then add the request to the current chunk
AddRequest(st, req, lim) ==
  LET base == IF ChunkOverflows(st.current, req, lim)
              THEN [ sealed |-> Append(st.sealed, st.current), current |-> EmptyChunk ]
              ELSE st
  IN [ sealed |-> base.sealed,
       current |-> [ requests |-> Append(base.current.requests, req),
                     tokens |-> base.current.tokens + req.tokens,
                     bytes |-> base.current.bytes + req.bytes ] ]

\* a loop end that keeps the last chunk even when it is empty
FinishPackingKeepEmpty(st) == Append(st.sealed, st.current)

\* after the loop: the last chunk is written if it holds a request, dropped
\* otherwise
FinishPacking(st) ==
  IF Len(st.current.requests) > 0 THEN Append(st.sealed, st.current) ELSE st.sealed

RECURSIVE PackFrom(_, _, _)
PackFrom(st, reqs, lim) ==
  IF reqs = <<>> THEN st ELSE PackFrom(AddRequest(st, Head(reqs), lim), Tail(reqs), lim)

PackChunks(reqs, lim) == FinishPacking(PackFrom(PackStart, reqs, lim))

\* the metadata Progress keeps of the k-th written chunk
ChunkMeta(chunks, k) ==
  [ index |-> k - 1,
    requestCount |-> Len(chunks[k].requests),
    estimatedTokens |-> chunks[k].tokens,
    sizeBytes |-> chunks[k].bytes,
    status |-> "pending",
    hasBatch |-> FALSE,
    hasOut |-> FALSE ]

ChunksMetadata(chunks) == [ k \in 1..Len(chunks) |-> ChunkMeta(chunks, k) ]

\* the components before they are started
IdleComponent == [ at |-> "idle" ]
\* every component but the named one is idle
IdleExcept(name) ==
  /\ name # "lv" => lv = IdleComponent
  /\ name # "sm" => sm = IdleComponent
  /\ name # "dc" => dc = IdleComponent
  /\ name # "df" => df = IdleComponent
  /\ name # "ch" => ch = IdleComponent
  /\ name # "pq" => pq = IdleComponent
  /\ name # "rg" => rg = IdleComponent
  /\ name # "rq" => rq = IdleComponent
  /\ name # "rb" => rb = IdleComponent
ComponentsIdle == IdleExcept("none")

\* the packing loop before it is entered
IdlePacking == [ at |-> "idle", todo |-> <<>>, st |-> PackStart, written |-> <<>>,
                 lim |-> [ maxRequestsPerBatch |-> 1, effectiveMaxBytes |-> 1 ] ]

(***************************************************************************)
(* Progress: the object and its file.                                      *)
(***************************************************************************)
NoJob == [ has |-> FALSE, status |-> "none", out |-> FALSE ]
NoPublications == [ has |-> FALSE, pmids |-> <<>>, errors |-> FALSE ]
NoDetection == [ has |-> FALSE, chunks |-> <<>>, date |-> 0, tokens |-> 0 ]

\* the object loadProgress returns when it starts fresh
FreshProgress ==
  [ stage |-> STAGES.PREP,
    queryGenV1 |-> NoJob,
    queryGenV2 |-> NoJob,
    resultDetection |-> NoDetection,
    rowStatus |-> [ r \in DOMAIN rows |-> "none" ],
    registrations |-> {},
    publications |-> [ t \in TrialIds |-> NoPublications ],
    skippedCounts |-> [ noTrialId |-> 0, noRegistration |-> 0 ] ]

NoFile == [ kind |-> "none", data |-> FreshProgress ]
CorruptFile == [ kind |-> "corrupt", data |-> FreshProgress ]
GoodFile(p) == [ kind |-> "ok", data |-> p ]

\* a loadProgress that forgets the stored publications
LoadProgressNoPublications(file) ==
  IF file.kind # "ok" THEN FreshProgress
  ELSE [ file.data EXCEPT !.publications = FreshProgress.publications ]

\* a loadProgress that always starts at PREP
LoadProgressFromPrep(file) ==
  IF file.kind # "ok" THEN FreshProgress
  ELSE [ file.data EXCEPT !.stage = STAGES.PREP ]

\* loadProgress: a missing or unparsable file starts fresh; a parsed file is
\* taken over field by field (the input path is the same in every run)
LoadProgress(file) ==
  IF file.kind # "ok" THEN FreshProgress
  ELSE [ stage |-> file.data.stage,
         queryGenV1 |-> file.data.queryGenV1,
         queryGenV2 |-> file.data.queryGenV2,
         resultDetection |-> file.data.resultDetection,
         rowStatus |-> file.data.rowStatus,
         registrations |-> file.data.registrations,
         publications |-> file.data.publications,
         skippedCounts |-> file.data.skippedCounts ]

\* how far a chunk status is along pending, uploaded, in flight, completed,
\* processed
ChunkRank(status) ==
  CASE status = "pending" -> 1
    [] status = "uploaded" -> 2
    [] status \in {"in_progress", "validating", "finalizing"} -> 3
    [] status = "completed" -> 4
    [] status = "processed" -> 5
    [] OTHER -> 0

\* the rank of chunk c in the object, 0 when the object has no such chunk
WrittenRank(p, c) ==
  IF c \in DOMAIN p.resultDetection.chunks
  THEN ChunkRank(p.resultDetection.chunks[c].status) ELSE 0

\* a recordRowStatus that records nothing
RecordNoRowStatus(p, r, status) == p

\* recordRowStatus
RecordRowStatus(p, r, status) == [ p EXCEPT !.rowStatus[r] = status ]

\* extractTrialId of a row
ExtractTrialId(r) == rows[r]

(***************************************************************************)
(* The batch driver: process control.                                      *)
(***************************************************************************)
ChunkSlots == 1..2
Variants == {"v1", "v2"}
\* the configurations of the driver: between them every strategy set and
\* a daily budget below, at and above the size of a chunk
Configs ==
  { [ strategies |-> {}, maxTokensPerDay |-> 1,
      maxRequestsPerBatch |-> 1, effectiveMaxBytes |-> 2 ],
    [ strategies |-> {"v2"}, maxTokensPerDay |-> 1,
      maxRequestsPerBatch |-> 1, effectiveMaxBytes |-> 2 ],
    [ strategies |-> {"v1"}, maxTokensPerDay |-> 2,
      maxRequestsPerBatch |-> 1, effectiveMaxBytes |-> 2 ],
    [ strategies |-> {"v1", "v2"}, maxTokensPerDay |-> 3,
      maxRequestsPerBatch |-> 1, effectiveMaxBytes |-> 2 ] }
\* registrationDiscovery returns the parsed registration or throws
RegistryAnswers == {"ok", "throw"}
NoLoc == [ sel |-> <<>>, up |-> <<>>, queue |-> <<>>,
           allCompleted |-> TRUE, anyFailed |-> FALSE ]
NoDiscovery == [ kind |-> "?", pmids |-> <<>>, errors |-> FALSE ]

\* the stages that issue no external call
LateStages == { STAGES.FINALIZE, STAGES.COST_CALCULATION }

\* the Progress object differs from what the Progress file holds
Dirty == progress # LoadProgress(disk)

Init ==
  /\ pc = "stopped" /\ ret = "none" /\ cur = "none" /\ i = 0 /\ loc = NoLoc
  /\ rows \in InputTables
  /\ progress = FreshProgress
  /\ disk = NoFile
  /\ lastGood = NoFile
  /\ inputFiles = <<>>
  /\ results = [ pr \in Pairs |-> "none" ]
  /\ sidecars = {}
  /\ csv = <<>>
  /\ config \in Configs
  /\ day = 1
  /\ regAnswer = [ t \in TrialIds |-> "?" ]
  /\ pubAnswer = [ t \in TrialIds |-> NoDiscovery ]
  /\ llmAnswer = [ pr \in Pairs |-> "?" ]
  /\ svc = [ c \in ChunkSlots |-> "none" ]
  /\ qsvc = [ v \in Variants |-> "none" ]
  /\ created = [ c \in ChunkSlots |-> 0 ]
  /\ createdTok = [ d \in 1..MaxDay |-> 0 ]
  /\ kills = 0 /\ lateKill = FALSE
  /\ chunkHigh = [ c \in ChunkSlots |-> 0 ]
  /\ pk = IdlePacking
  /\ ComponentsIdle

fsVars == << inputFiles, results, sidecars, csv >>
envVars == << rows, config, day, regAnswer, pubAnswer, llmAnswer, svc, qsvc >>
histVars == << created, createdTok, kills, lateKill, lastGood, chunkHigh >>

\* the process is gone: its memory with it
Halt(how) ==
  /\ pc' = how /\ ret' = "none" /\ cur' = "none" /\ i' = 0 /\ loc' = NoLoc
  /\ progress' = FreshProgress

\* main: a new process reads the Progress file
Restart ==
  /\ pc \in {"stopped", "failed", "exhausted"}
  /\ progress' = LoadProgress(disk)
  /\ pc' = "main"
  /\ UNCHANGED << ret, cur, i, loc, disk, pk, compVars >> /\ UNCHANGED histVars
  /\ UNCHANGED fsVars /\ UNCHANGED envVars

Running == pc \notin {"stopped", "failed", "exhausted", "done"}

\* the process is killed at its current position
Kill ==
  /\ Running /\ kills < MaxKills
  /\ Halt("stopped")
  /\ kills' = kills + 1
  /\ lateKill' = (lateKill \/ cur \in LateStages)
  /\ UNCHANGED << disk, lastGood, chunkHigh, created, createdTok, pk, compVars >>
  /\ UNCHANGED fsVars /\ UNCHANGED envVars

\* saveProgress: writeFileSync of the whole object
SaveProgress ==
  /\ pc = "save"
  /\ disk' = GoodFile(progress) /\ lastGood' = GoodFile(progress)
  /\ chunkHigh' = [ c \in ChunkSlots |->
                      IF WrittenRank(progress, c) > chunkHigh[c]
                      THEN WrittenRank(progress, c) ELSE chunkHigh[c] ]
  /\ pc' = ret /\ ret' = "none"
  /\ cur' = IF ret = "main" THEN "none" ELSE cur
  /\ UNCHANGED << i, loc, progress, created, createdTok, kills, lateKill, pk, compVars >>
  /\ UNCHANGED fsVars /\ UNCHANGED envVars

\* the process is killed inside writeFileSync: the file is truncated or
\* partly written, and no longer parses
TornSave ==
  /\ pc = "save" /\ kills < MaxKills
  /\ disk' = CorruptFile
  /\ Halt("stopped")
  /\ kills' = kills + 1
  /\ lateKill' = (lateKill \/ cur \in LateStages)
  /\ UNCHANGED << lastGood, chunkHigh, created, createdTok, pk, compVars >>
  /\ UNCHANGED fsVars /\ UNCHANGED envVars

\* main's loop ends at COMPLETE
Finish ==
  /\ pc = "main" /\ progress.stage = STAGES.COMPLETE
  /\ pc' = "done"
  /\ UNCHANGED << ret, cur, i, loc, progress, disk, pk, compVars >>
  /\ UNCHANGED fsVars /\ UNCHANGED envVars /\ UNCHANGED histVars

\* what every step of a stage leaves alone unless it says otherwise
StageFrame == UNCHANGED << kills, lateKill, lastGood, chunkHigh, disk, pk, compVars >>

\* then saveProgress, then continue at next
ThenSave(next) == pc' = "save" /\ ret' = next

(***************************************************************************)
(* PREP                                                                    *)
(***************************************************************************)
PrepEnter ==
  /\ pc = "main" /\ progress.stage = STAGES.PREP
  /\ pc' = "PREP" /\ cur' = STAGES.PREP /\ i' = 1
  /\ UNCHANGED << ret, loc, progress, created, createdTok >>
  /\ StageFrame /\ UNCHANGED fsVars /\ UNCHANGED envVars

PrepSkipNoId ==
  /\ pc = "PREP" /\ i <= Len(rows) /\ ExtractTrialId(i) = NoId
  /\ progress' = [ progress EXCEPT !.skippedCounts.noTrialId = @ + 1 ]
  /\ ThenSave("PREP") /\ i' = i + 1
  /\ UNCHANGED << cur, loc, created, createdTok >>
  /\ StageFrame /\ UNCHANGED fsVars /\ UNCHANGED envVars

PrepSkipFetched ==
  /\ pc = "PREP" /\ i <= Len(rows) /\ ExtractTrialId(i) # NoId
  /\ ExtractTrialId(i) \in progress.registrations
  /\ i' = i + 1
  /\ UNCHANGED << pc, ret, cur, loc, progress, created, createdTok >>
  /\ StageFrame /\ UNCHANGED fsVars /\ UNCHANGED envVars

\* registrationDiscovery: the registry answers with a record, or the call
\* throws and the row is recorded as failed
PrepFetch ==
  /\ pc = "PREP" /\ i <= Len(rows) /\ ExtractTrialId(i) # NoId
  /\ ExtractTrialId(i) \notin progress.registrations
  /\ \E a \in RegistryAnswers :
       LET t == ExtractTrialId(i) IN
       /\ regAnswer[t] \in {"?", a}
       /\ regAnswer' = [ regAnswer EXCEPT ![t] = a ]
       /\ progress' = IF a = "ok"
                      THEN [ progress EXCEPT !.registrations = @ \cup {t} ]
                      ELSE RecordRowStatus(progress, i, "error")
  /\ ThenSave("PREP") /\ i' = i + 1
  /\ UNCHANGED << cur, loc, created, createdTok >>
  /\ StageFrame /\ UNCHANGED fsVars
  /\ UNCHANGED << rows, config, day, pubAnswer, llmAnswer, svc, qsvc >>

PrepDone ==
  /\ pc = "PREP" /\ i > Len(rows)
  /\ progress' = [ progress EXCEPT !.stage = STAGES.QUERY_GEN_UPLOAD ]
  /\ ThenSave("main")
  /\ UNCHANGED << cur, i, loc, created, createdTok >>
  /\ StageFrame /\ UNCHANGED fsVars /\ UNCHANGED envVars

(***************************************************************************)
(* The configuration and the batch service.                                *)
(***************************************************************************)
\* the enabled variants, v1 before v2
VariantQueue(e) ==
  (IF "v1" \in e THEN <<"v1">> ELSE <<>>) \o (IF "v2" \in e THEN <<"v2">> ELSE <<>>)

\* how a batch job moves on at the service
ServiceNext(s) ==
  CASE s = "validating" -> {"in_progress", "failed"}
    [] s = "in_progress" -> {"completed", "completed_no_output", "expired", "cancelling"}
    [] s = "cancelling" -> {"cancelled"}
    [] OTHER -> {}

FailedStatuses == {"failed", "expired", "cancelled"}
BadStatuses == FailedStatuses \cup {"completed_no_output"}

\* batch.status of a retrieve; a completed job may come without output_file_id
RetrievedStatus(s) == IF s = "completed_no_output" THEN "completed" ELSE s

\* the moves of a job that completes with output
GoodStatuses == {"in_progress", "completed"}

\* the service is observed by retrieve only: its moves are taken where the
\* driver is about to retrieve
QueryServiceMoves(allowed) ==
  /\ pc = "QGP_poll" /\ loc.queue # <<>>
  /\ \E s \in ServiceNext(qsvc[Head(loc.queue)]) \cap allowed :
       qsvc' = [ qsvc EXCEPT ![Head(loc.queue)] = s ]
  /\ UNCHANGED << pc, ret, cur, i, loc, progress, disk, pk, compVars, rows, config,
                  day, regAnswer, pubAnswer, llmAnswer, svc >>
  /\ UNCHANGED fsVars /\ UNCHANGED histVars

QueryServiceAdvance == QueryServiceMoves(GoodStatuses \cup BadStatuses)

QueryServiceCompletes == QueryServiceMoves(GoodStatuses)

Job(p, v) == IF v = "v1" THEN p.queryGenV1 ELSE p.queryGenV2
SetJob(p, v, job) ==
  IF v = "v1" THEN [ p EXCEPT !.queryGenV1 = job ] ELSE [ p EXCEPT !.queryGenV2 = job ]

(***************************************************************************)
(* QUERY_GEN_UPLOAD                                                        *)
(***************************************************************************)
\* rows with a trial id and a registration
ValidRows(p) ==
  { r \in DOMAIN rows : ExtractTrialId(r) # NoId /\ ExtractTrialId(r) \in p.registrations }
\* rows with a trial id and no registration
UnregisteredRows(p) ==
  { r \in DOMAIN rows : ExtractTrialId(r) # NoId /\ ExtractTrialId(r) \notin p.registrations }

QguSkip ==
  /\ pc = "main" /\ progress.stage = STAGES.QUERY_GEN_UPLOAD
  /\ config.strategies = {}
  /\ progress' = [ progress EXCEPT !.stage = STAGES.PUB_DISCOVERY ]
  /\ cur' = STAGES.QUERY_GEN_UPLOAD /\ ThenSave("main")
  /\ UNCHANGED << i, loc, created, createdTok >>
  /\ StageFrame /\ UNCHANGED fsVars /\ UNCHANGED envVars

QguEnter ==
  /\ pc = "main" /\ progress.stage = STAGES.QUERY_GEN_UPLOAD
  /\ config.strategies # {}
  /\ loc' = [ NoLoc EXCEPT !.queue = VariantQueue(config.strategies) ]
  /\ progress' = [ progress EXCEPT !.skippedCounts.noRegistration =
                                      @ + Cardinality(UnregisteredRows(progress)) ]
  /\ cur' = STAGES.QUERY_GEN_UPLOAD /\ ThenSave("QGU_file")
  /\ UNCHANGED << i, created, createdTok >>
  /\ StageFrame /\ UNCHANGED fsVars /\ UNCHANGED envVars

QguNoValidTrials ==
  /\ pc = "QGU_file" /\ ValidRows(progress) = {}
  /\ progress' = [ progress EXCEPT !.stage = STAGES.PUB_DISCOVERY ]
  /\ ThenSave("main")
  /\ UNCHANGED << cur, i, loc, created, createdTok >>
  /\ StageFrame /\ UNCHANGED fsVars /\ UNCHANGED envVars

\* openai.files.create of the variant's JSONL
QguUploadFile ==
  /\ pc = "QGU_file" /\ ValidRows(progress) # {} /\ loc.queue # <<>>
  /\ pc' = "QGU_create"
  /\ UNCHANGED << ret, cur, i, loc, progress, created, createdTok >>
  /\ StageFrame /\ UNCHANGED fsVars /\ UNCHANGED envVars

\* openai.batches.create, then the job is recorded
QguCreateBatch ==
  /\ pc = "QGU_create"
  /\ LET v == Head(loc.queue) IN
       /\ qsvc' = [ qsvc EXCEPT ![v] = "validating" ]
       /\ progress' = SetJob(progress, v,
                             [ has |-> TRUE, status |-> "validating", out |-> FALSE ])
  /\ loc' = [ loc EXCEPT !.queue = Tail(@) ]
  /\ ThenSave("QGU_file")
  /\ UNCHANGED << cur, i, created, createdTok >>
  /\ StageFrame /\ UNCHANGED fsVars
  /\ UNCHANGED << rows, config, day, regAnswer, pubAnswer, llmAnswer, svc >>

QguDone ==
  /\ pc = "QGU_file" /\ ValidRows(progress) # {} /\ loc.queue = <<>>
  /\ progress' = [ progress EXCEPT !.stage = STAGES.QUERY_GEN_POLL ]
  /\ ThenSave("main")
  /\ UNCHANGED << cur, i, loc, created, createdTok >>
  /\ StageFrame /\ UNCHANGED fsVars /\ UNCHANGED envVars

(***************************************************************************)
(* QUERY_GEN_POLL                                                          *)
(***************************************************************************)
\* (the stage throws when an enabled variant has no recorded job: QUERY_GEN_UPLOAD
\* records a job for every enabled variant before it advances)
QgpEnter ==
  /\ pc = "main" /\ progress.stage = STAGES.QUERY_GEN_POLL
  /\ \A v \in config.strategies : Job(progress, v).has
  /\ loc' = [ NoLoc EXCEPT !.queue = VariantQueue(config.strategies) ]
  /\ pc' = "QGP_poll" /\ cur' = STAGES.QUERY_GEN_POLL
  /\ UNCHANGED << ret, i, progress, created, createdTok >>
  /\ StageFrame /\ UNCHANGED fsVars /\ UNCHANGED envVars

\* openai.batches.retrieve of one variant, and what the loop does with it
QgpRetrieve ==
  /\ pc = "QGP_poll" /\ loc.queue # <<>>
  /\ qsvc[Head(loc.queue)] # "completed_no_output"
  /\ LET v == Head(loc.queue)
         st == qsvc[v]
         job == [ Job(progress, v) EXCEPT !.status = st,
                                          !.out = IF st = "completed" THEN TRUE ELSE @ ]
     IN /\ progress' = SetJob(progress, v, job)
        /\ loc' = [ loc EXCEPT !.queue = Tail(@),
                               !.anyFailed = @ \/ st \in FailedStatuses,
                               !.allCompleted = @ /\ st \in {"completed"} \cup FailedStatuses ]
  /\ IF Tail(loc.queue) = <<>> THEN ThenSave("QGP_after") ELSE UNCHANGED << pc, ret >>
  /\ UNCHANGED << cur, i, created, createdTok >>
  /\ StageFrame /\ UNCHANGED fsVars /\ UNCHANGED envVars

\* a completed job without output_file_id: the stage throws
QgpNoOutput ==
  /\ pc = "QGP_poll" /\ loc.queue # <<>>
  /\ qsvc[Head(loc.queue)] = "completed_no_output"
  /\ Halt("failed")
  /\ UNCHANGED << disk, pk, compVars >> /\ UNCHANGED histVars
  /\ UNCHANGED fsVars /\ UNCHANGED envVars

QgpFailed ==
  /\ pc = "QGP_after" /\ loc.anyFailed
  /\ Halt("failed")
  /\ UNCHANGED << disk, pk, compVars >>
  /\ UNCHANGED fsVars /\ UNCHANGED envVars /\ UNCHANGED histVars

QgpAdvance ==
  /\ pc = "QGP_after" /\ ~loc.anyFailed /\ loc.allCompleted
  /\ progress' = [ progress EXCEPT !.stage = STAGES.QUERY_GEN_PROCESS ]
  /\ ThenSave("main")
  /\ UNCHANGED << cur, i, loc, created, createdTok >>
  /\ StageFrame /\ UNCHANGED fsVars /\ UNCHANGED envVars

\* sleep(pollInterval), then the next round
QgpSleep ==
  /\ pc = "QGP_after" /\ ~loc.anyFailed /\ ~loc.allCompleted
  /\ loc' = [ NoLoc EXCEPT !.queue = VariantQueue(config.strategies) ]
  /\ pc' = "QGP_poll"
  /\ UNCHANGED << ret, cur, i, progress, created, createdTok >>
  /\ StageFrame /\ UNCHANGED fsVars /\ UNCHANGED envVars

(***************************************************************************)
(* QUERY_GEN_PROCESS                                                       *)
(***************************************************************************)
QgprocEnter ==
  /\ pc = "main" /\ progress.stage = STAGES.QUERY_GEN_PROCESS
  /\ loc' = [ NoLoc EXCEPT !.queue = VariantQueue(config.strategies) ]
  /\ pc' = "QGPROC" /\ cur' = STAGES.QUERY_GEN_PROCESS
  /\ UNCHANGED << ret, i, progress, created, createdTok >>
  /\ StageFrame /\ UNCHANGED fsVars /\ UNCHANGED envVars

\* openai.files.content of the variant's output; the parsed queries go to
\* the shared pool publication discovery reads (the stage throws when the
\* output file id is missing: QUERY_GEN_POLL records it before it advances)
QgprocDownload ==
  /\ pc = "QGPROC" /\ loc.queue # <<>> /\ Job(progress, Head(loc.queue)).out
  /\ loc' = [ loc EXCEPT !.queue = Tail(@) ]
  /\ UNCHANGED << pc, ret, cur, i, progress, created, createdTok >>
  /\ StageFrame /\ UNCHANGED fsVars /\ UNCHANGED envVars

QgprocDone ==
  /\ pc = "QGPROC" /\ loc.queue = <<>>
  /\ progress' = [ progress EXCEPT !.stage = STAGES.PUB_DISCOVERY ]
  /\ ThenSave("main")
  /\ UNCHANGED << cur, i, loc, created, createdTok >>
  /\ StageFrame /\ UNCHANGED fsVars /\ UNCHANGED envVars

(***************************************************************************)
(* PUB_DISCOVERY                                                           *)
(***************************************************************************)
\* publicationDiscovery throws, or returns the eligible PMIDs, with or
\* without strategy errors
DiscoveryAnswers ==
  { [ kind |-> "throw", pmids |-> <<>>, errors |-> FALSE ] }
  \cup { [ kind |-> "ok", pmids |-> l, errors |-> FALSE ] : l \in PmidLists }
  \cup { [ kind |-> "ok", pmids |-> <<1, 2>>, errors |-> TRUE ] }

PubEnter ==
  /\ pc = "main" /\ progress.stage = STAGES.PUB_DISCOVERY
  /\ pc' = "PUB" /\ cur' = STAGES.PUB_DISCOVERY /\ i' = 1
  /\ UNCHANGED << ret, loc, progress, created, createdTok >>
  /\ StageFrame /\ UNCHANGED fsVars /\ UNCHANGED envVars

\* rows without a trial id and rows whose publications are already stored
PubSkip ==
  /\ pc = "PUB" /\ i <= Len(rows)
  /\ \/ ExtractTrialId(i) = NoId
     \/ /\ ExtractTrialId(i) # NoId
        /\ progress.publications[ExtractTrialId(i)].has
  /\ i' = i + 1
  /\ UNCHANGED << pc, ret, cur, loc, progress, created, createdTok >>
  /\ StageFrame /\ UNCHANGED fsVars /\ UNCHANGED envVars

PubSkipNoRegistration ==
  /\ pc = "PUB" /\ i <= Len(rows) /\ ExtractTrialId(i) # NoId
  /\ ~progress.publications[ExtractTrialId(i)].has
  /\ ExtractTrialId(i) \notin progress.registrations
  /\ progress' = [ progress EXCEPT !.skippedCounts.noRegistration = @ + 1 ]
  /\ ThenSave("PUB") /\ i' = i + 1
  /\ UNCHANGED << cur, loc, created, createdTok >>
  /\ StageFrame /\ UNCHANGED fsVars /\ UNCHANGED envVars

\* publicationDiscovery, then the date filters: the eligible publications
\* and the strategy errors are stored, or the row is recorded as failed
PubDiscover ==
  /\ pc = "PUB" /\ i <= Len(rows) /\ ExtractTrialId(i) # NoId
  /\ ~progress.publications[ExtractTrialId(i)].has
  /\ ExtractTrialId(i) \in progress.registrations
  /\ \E a \in DiscoveryAnswers :
       LET t == ExtractTrialId(i) IN
       /\ pubAnswer[t].kind = "?" \/ pubAnswer[t] = a
       \* no strategy enabled: discoverPublications has nothing to run
       /\ (config.strategies = {} /\ a.kind = "ok") => (a.pmids = <<>> /\ ~a.errors)
       /\ pubAnswer' = [ pubAnswer EXCEPT ![t] = a ]
       /\ progress' = IF a.kind = "throw"
                      THEN RecordRowStatus(progress, i, "error")
                      ELSE [ progress EXCEPT !.publications[t] =
                               [ has |-> TRUE, pmids |-> a.pmids, errors |-> a.errors ] ]
  /\ ThenSave("PUB") /\ i' = i + 1
  /\ UNCHANGED << cur, loc, created, createdTok >>
  /\ StageFrame /\ UNCHANGED fsVars
  /\ UNCHANGED << rows, config, day, regAnswer, llmAnswer, svc, qsvc >>

PubDone ==
  /\ pc = "PUB" /\ i > Len(rows)
  /\ progress' = [ progress EXCEPT !.stage = STAGES.RESULT_GEN_PREPARATION ]
  /\ ThenSave("main")
  /\ UNCHANGED << cur, i, loc, created, createdTok >>
  /\ StageFrame /\ UNCHANGED fsVars /\ UNCHANGED envVars

(***************************************************************************)
(* RESULT_GEN_PREPARATION                                                  *)
(***************************************************************************)
\* sizes of one classification request: the estimate grows with the prompt,
\* and the abstract of PMID 2 is the longer one
RequestTokens(t, pmid) == pmid
RequestBytes(t, pmid) == 1

\* the request of the pair, with custom_id "<trialId>__<pmid>"
Request(t, pmid) ==
  [ id |-> << t, pmid >>, tokens |-> RequestTokens(t, pmid), bytes |-> RequestBytes(t, pmid) ]

\* the requests of one row: none without trial id, registration or publications
RowRequests(p, r) ==
  LET t == ExtractTrialId(r) IN
  IF t = NoId \/ t \notin p.registrations \/ ~p.publications[t].has THEN <<>>
  ELSE [ k \in 1..Len(p.publications[t].pmids) |-> Request(t, p.publications[t].pmids[k]) ]

\* all requests, in row order
Requests(p) == FlattenSeq([ r \in 1..Len(rows) |-> RowRequests(p, r) ])

AtUpload == pc = "main" /\ progress.stage = STAGES.RESULT_GEN_UPLOAD

\* midnight passes; the date is read when RESULT_GEN_UPLOAD is entered, and
\* the day changes where it can be observed
NextDay ==
  /\ day < MaxDay /\ AtUpload
  /\ day' = day + 1
  /\ UNCHANGED << pc, ret, cur, i, loc, progress, disk, pk, compVars, rows, config,
                  regAnswer, pubAnswer, llmAnswer, svc, qsvc >>
  /\ UNCHANGED fsVars /\ UNCHANGED histVars

PrepareChunks ==
  /\ pc = "main" /\ progress.stage = STAGES.RESULT_GEN_PREPARATION
  /\ LET chunks == PackChunks(Requests(progress), config) IN
       /\ inputFiles' = IF chunks = <<>> THEN inputFiles
                        ELSE [ k \in 1..Len(chunks) |->
                                 [ n \in 1..Len(chunks[k].requests) |-> chunks[k].requests[n].id ] ]
       /\ progress' = IF chunks = <<>>
                      THEN [ progress EXCEPT !.stage = STAGES.FINALIZE ]
                      ELSE [ progress EXCEPT
                               !.resultDetection = [ has |-> TRUE,
                                                     chunks |-> ChunksMetadata(chunks),
                                                     date |-> day, tokens |-> 0 ],
                               !.stage = STAGES.RESULT_GEN_UPLOAD ]
  /\ cur' = STAGES.RESULT_GEN_PREPARATION /\ ThenSave("main")
  /\ UNCHANGED << i, loc, created, createdTok, results, sidecars, csv >>
  /\ StageFrame /\ UNCHANGED envVars

(***************************************************************************)
(* RESULT_GEN_UPLOAD                                                       *)
(***************************************************************************)
\* a daily quota that is never reset
ResetDailyNever(rd, today) == rd

\* "Reset daily quota if new day"
ResetDaily(rd, today) ==
  IF rd.date # today THEN [ rd EXCEPT !.date = today, !.tokens = 0 ] ELSE rd

\* a selection that takes every pending chunk, whatever the budget
SelectAllPending(chunks, pending, tokenBudget) == pending

\* a selection that takes the next pending chunk, whatever the budget
SelectNextPending(chunks, pending, tokenBudget) ==
  IF pending = <<>> THEN <<>> ELSE << Head(pending) >>

\* "Calculate how many chunks fit in remaining daily quota": the pending
\* chunks in index order, up to the first that exceeds what is left
RECURSIVE SelectChunks(_, _, _)
SelectChunks(chunks, pending, tokenBudget) ==
  IF pending = <<>> THEN <<>>
  ELSE IF chunks[Head(pending)].estimatedTokens <= tokenBudget
       THEN << Head(pending) >>
            \o SelectChunks(chunks, Tail(pending),
                            tokenBudget - chunks[Head(pending)].estimatedTokens)
       ELSE <<>>

PendingChunks(rd) == ChunksWithStatus(rd.chunks, {"pending"})

ChunksToUpload(rd, m) == SelectChunks(rd.chunks, PendingChunks(rd), m - rd.tokens)

\* (RESULT_GEN_UPLOAD is entered from RESULT_GEN_PREPARATION, which writes
\* pending chunks, and from RESULT_GEN_PROCESS, which comes back only while a
\* chunk is pending: the stage's branch for "no pending chunk" is never taken)
\* "Daily token quota exhausted ... Restart tomorrow to continue."
RguExhausted ==
  /\ AtUpload
  /\ LET rd == ResetDaily(progress.resultDetection, day) IN
       /\ PendingChunks(rd) # <<>>
       /\ ChunksToUpload(rd, config.maxTokensPerDay) = <<>>
  /\ Halt("exhausted")
  /\ UNCHANGED << disk, pk, compVars >>
  /\ UNCHANGED fsVars /\ UNCHANGED envVars /\ UNCHANGED histVars

\* the selected chunks start uploading together: every callback issues its
\* openai.files.create before the first await
RguStart ==
  /\ AtUpload
  /\ LET rd == ResetDaily(progress.resultDetection, day)
         sel == ChunksToUpload(rd, config.maxTokensPerDay)
     IN /\ sel # <<>>
        /\ progress' = [ progress EXCEPT !.resultDetection = rd ]
        /\ loc' = [ NoLoc EXCEPT !.sel = sel, !.up = [ k \in 1..Len(sel) |-> "file" ] ]
  /\ pc' = "RGU_par" /\ cur' = STAGES.RESULT_GEN_UPLOAD
  /\ UNCHANGED << ret, i, created, createdTok >>
  /\ StageFrame /\ UNCHANGED fsVars /\ UNCHANGED envVars

\* a callback's file upload resolved: it issues openai.batches.create, and
\* the service creates the batch job
RguCreateBatch ==
  /\ pc = "RGU_par"
  /\ \E k \in DOMAIN loc.up :
       LET c == loc.sel[k] IN
       /\ loc.up[k] = "file"
       /\ loc' = [ loc EXCEPT !.up[k] = "batch" ]
       /\ svc' = [ svc EXCEPT ![c] = "validating" ]
       /\ created' = [ created EXCEPT ![c] = @ + 1 ]
       /\ createdTok' = [ createdTok EXCEPT ![day] =
                            @ + progress.resultDetection.chunks[c].estimatedTokens ]
  /\ UNCHANGED << pc, ret, cur, i, progress >>
  /\ StageFrame /\ UNCHANGED fsVars
  /\ UNCHANGED << rows, config, day, regAnswer, pubAnswer, llmAnswer, qsvc >>

\* the rest of the callback: "Update chunk metadata", "Increment daily token usage"
MarkUploaded(rd, c) ==
  [ rd EXCEPT !.chunks[c].status = "uploaded",
              !.chunks[c].hasBatch = TRUE,
              !.tokens = @ + rd.chunks[c].estimatedTokens ]

RguBatchCreated ==
  /\ pc = "RGU_par"
  /\ \E k \in DOMAIN loc.up :
       /\ loc.up[k] = "batch"
       /\ loc' = [ loc EXCEPT !.up[k] = "done" ]
       /\ progress' = [ progress EXCEPT !.resultDetection = MarkUploaded(@, loc.sel[k]) ]
  /\ UNCHANGED << pc, ret, cur, i, created, createdTok >>
  /\ StageFrame /\ UNCHANGED fsVars /\ UNCHANGED envVars

\* one of the uploads rejects: Promise.all rejects, the stage throws and the
\* process exits
RguUploadFails ==
  /\ pc = "RGU_par" /\ kills < MaxKills
  /\ \E k \in DOMAIN loc.up : loc.up[k] \in {"file", "batch"}
  /\ Halt("failed")
  /\ kills' = kills + 1
  /\ UNCHANGED << disk, pk, compVars, created, createdTok, lateKill, lastGood, chunkHigh >>
  /\ UNCHANGED fsVars /\ UNCHANGED envVars

\* after Promise.all: the only saveProgress of the stage
RguDone ==
  /\ pc = "RGU_par" /\ \A k \in DOMAIN loc.up : loc.up[k] = "done"
  /\ progress' = [ progress EXCEPT !.stage = STAGES.RESULT_GEN_POLL ]
  /\ ThenSave("main")
  /\ UNCHANGED << cur, i, loc, created, createdTok >>
  /\ StageFrame /\ UNCHANGED fsVars /\ UNCHANGED envVars

(***************************************************************************)
(* RESULT_GEN_POLL                                                         *)
(***************************************************************************)
PolledStatuses == {"uploaded", "in_progress", "finalizing", "validating"}

\* the service moves a polled batch on, where the driver is about to retrieve
ServiceMoves(allowed) ==
  /\ pc = "RGP_poll"
  /\ \E k \in DOMAIN loc.sel : \E s \in ServiceNext(svc[loc.sel[k]]) \cap allowed :
       svc' = [ svc EXCEPT ![loc.sel[k]] = s ]
  /\ UNCHANGED << pc, ret, cur, i, loc, progress, disk, pk, compVars, rows, config,
                  day, regAnswer, pubAnswer, llmAnswer, qsvc >>
  /\ UNCHANGED fsVars /\ UNCHANGED histVars

ServiceAdvance == ServiceMoves(GoodStatuses \cup BadStatuses)

ServiceCompletes == ServiceMoves(GoodStatuses)

\* the batch is cancelled at the service (by its owner, from outside the
\* driver): it is "cancelling" until the service has stopped it
ServiceCancels == ServiceMoves({"cancelling"})

RgpNothingUploaded ==
  /\ pc = "main" /\ progress.stage = STAGES.RESULT_GEN_POLL
  /\ ChunksWithStatus(progress.resultDetection.chunks, PolledStatuses) = <<>>
  /\ progress' = [ progress EXCEPT !.stage = STAGES.RESULT_GEN_PROCESS ]
  /\ cur' = STAGES.RESULT_GEN_POLL /\ ThenSave("main")
  /\ UNCHANGED << i, loc, created, createdTok >>
  /\ StageFrame /\ UNCHANGED fsVars /\ UNCHANGED envVars

RgpEnter ==
  /\ pc = "main" /\ progress.stage = STAGES.RESULT_GEN_POLL
  /\ ChunksWithStatus(progress.resultDetection.chunks, PolledStatuses) # <<>>
  /\ loc' = [ NoLoc EXCEPT
                !.sel = ChunksWithStatus(progress.resultDetection.chunks, PolledStatuses) ]
  /\ pc' = "RGP_poll" /\ cur' = STAGES.RESULT_GEN_POLL
  /\ UNCHANGED << ret, i, progress, created, createdTok >>
  /\ StageFrame /\ UNCHANGED fsVars /\ UNCHANGED envVars

\* statuses.forEach: the chunk takes the batch's status, and its output file
\* id when completed
RECURSIVE ApplyStatuses(_, _)
ApplyStatuses(rd, sel) ==
  IF sel = <<>> THEN rd
  ELSE LET c == Head(sel)
           st == RetrievedStatus(svc[c])
       IN ApplyStatuses([ rd EXCEPT !.chunks[c].status = st,
                                    !.chunks[c].hasOut = IF st = "completed" THEN TRUE ELSE @ ],
                        Tail(sel))

\* a forEach that throws on no status
PollNeverThrows(c) == FALSE

\* a polled batch that makes forEach throw
PollThrows(c) == svc[c] \in FailedStatuses \cup {"completed_no_output"}

\* Promise.all of openai.batches.retrieve, then forEach, then saveProgress
RgpPoll ==
  /\ pc = "RGP_poll"
  /\ \A k \in DOMAIN loc.sel : ~PollThrows(loc.sel[k])
  /\ progress' = [ progress EXCEPT !.resultDetection = ApplyStatuses(@, loc.sel) ]
  /\ loc' = [ loc EXCEPT !.allCompleted =
                \A k \in DOMAIN loc.sel : svc[loc.sel[k]] = "completed" ]
  /\ ThenSave("RGP_after")
  /\ UNCHANGED << cur, i, created, createdTok >>
  /\ StageFrame /\ UNCHANGED fsVars /\ UNCHANGED envVars

RgpPollThrows ==
  /\ pc = "RGP_poll"
  /\ \E k \in DOMAIN loc.sel : PollThrows(loc.sel[k])
  /\ Halt("failed")
  /\ UNCHANGED << disk, pk, compVars >> /\ UNCHANGED histVars
  /\ UNCHANGED fsVars /\ UNCHANGED envVars

RgpAdvance ==
  /\ pc = "RGP_after" /\ loc.allCompleted
  /\ progress' = [ progress EXCEPT !.stage = STAGES.RESULT_GEN_PROCESS ]
  /\ ThenSave("main")
  /\ UNCHANGED << cur, i, loc, created, createdTok >>
  /\ StageFrame /\ UNCHANGED fsVars /\ UNCHANGED envVars

RgpSleep ==
  /\ pc = "RGP_after" /\ ~loc.allCompleted
  /\ pc' = "RGP_poll"
  /\ UNCHANGED << ret, cur, i, loc, progress, created, createdTok >>
  /\ StageFrame /\ UNCHANGED fsVars /\ UNCHANGED envVars

(***************************************************************************)
(* RESULT_GEN_PROCESS                                                      *)
(***************************************************************************)
\* a response line: hasResults true, hasResults false, or an error line or
\* unparsable content
LlmAnswers == {"pos", "neg", "err"}

\* "Check if there are still pending chunks"
AfterProcess(p) ==
  IF ChunksWithStatus(p.resultDetection.chunks, {"pending"}) # <<>>
  THEN STAGES.RESULT_GEN_UPLOAD ELSE STAGES.FINALIZE

RgprocNothingCompleted ==
  /\ pc = "main" /\ progress.stage = STAGES.RESULT_GEN_PROCESS
  /\ ChunksWithStatus(progress.resultDetection.chunks, {"completed"}) = <<>>
  /\ progress' = [ progress EXCEPT !.stage = AfterProcess(progress) ]
  /\ cur' = STAGES.RESULT_GEN_PROCESS /\ ThenSave("main")
  /\ UNCHANGED << i, loc, created, createdTok >>
  /\ StageFrame /\ UNCHANGED fsVars /\ UNCHANGED envVars

RgprocEnter ==
  /\ pc = "main" /\ progress.stage = STAGES.RESULT_GEN_PROCESS
  /\ ChunksWithStatus(progress.resultDetection.chunks, {"completed"}) # <<>>
  /\ loc' = [ NoLoc EXCEPT
                !.queue = ChunksWithStatus(progress.resultDetection.chunks, {"completed"}) ]
  /\ pc' = "RGPROC" /\ cur' = STAGES.RESULT_GEN_PROCESS
  /\ UNCHANGED << ret, i, progress, created, createdTok >>
  /\ StageFrame /\ UNCHANGED fsVars /\ UNCHANGED envVars

\* one chunk: openai.files.content, a result file for every line that
\* parses, then the chunk is marked processed and Progress is saved
RgprocChunk ==
  /\ pc = "RGPROC" /\ loc.queue # <<>>
  /\ LET c == Head(loc.queue)
         ids == Range(inputFiles[c])
     IN /\ \E f \in [ ids -> LlmAnswers ] :
             /\ \A pr \in ids : llmAnswer[pr] \in {"?", f[pr]}
             /\ llmAnswer' = [ pr \in Pairs |-> IF pr \in ids THEN f[pr] ELSE llmAnswer[pr] ]
             /\ results' = [ pr \in Pairs |->
                               IF pr \in ids /\ f[pr] # "err" THEN f[pr] ELSE results[pr] ]
        /\ progress' = [ progress EXCEPT !.resultDetection.chunks[c].status = "processed" ]
  /\ loc' = [ loc EXCEPT !.queue = Tail(@) ]
  /\ ThenSave("RGPROC")
  /\ UNCHANGED << cur, i, created, createdTok, inputFiles, sidecars, csv >>
  /\ StageFrame
  /\ UNCHANGED << rows, config, day, regAnswer, pubAnswer, svc, qsvc >>

RgprocDone ==
  /\ pc = "RGPROC" /\ loc.queue = <<>>
  /\ progress' = [ progress EXCEPT !.stage = AfterProcess(progress) ]
  /\ ThenSave("main")
  /\ UNCHANGED << cur, i, loc, created, createdTok >>
  /\ StageFrame /\ UNCHANGED fsVars /\ UNCHANGED envVars

(***************************************************************************)
(* FINALIZE and COST_CALCULATION                                           *)
(***************************************************************************)
\* the PMIDs of the list, in order, whose result file holds the verdict
RECURSIVE PmidsWith(_, _, _, _)
PmidsWith(store, t, pmids, verdicts) ==
  IF pmids = <<>> THEN <<>>
  ELSE (IF store[<< t, Head(pmids) >>] \in verdicts THEN << Head(pmids) >> ELSE <<>>)
       \o PmidsWith(store, t, Tail(pmids), verdicts)

\* a summary whose has_error looks at the discovery errors only
SummaryOfDiscoveryErrors(store, t, pubData) ==
  LET positives == PmidsWith(store, t, pubData.pmids, {"pos"})
      failedResultDiscoveries == PmidsWith(store, t, pubData.pmids, {"none"})
  IN [ trial_id |-> t,
       tool_results |-> Len(positives) > 0,
       has_error |-> pubData.errors,
       tool_prompted_pmids |-> pubData.pmids,
       tool_result_pmids |-> positives,
       failed_result_discoveries |-> failedResultDiscoveries ]

\* the summary of a trial from its publications and the result files
Summary(store, t, pubData) ==
  LET positives == PmidsWith(store, t, pubData.pmids, {"pos"})
      failedResultDiscoveries == PmidsWith(store, t, pubData.pmids, {"none"})
  IN [ trial_id |-> t,
       tool_results |-> Len(positives) > 0,
       has_error |-> pubData.errors \/ Len(failedResultDiscoveries) > 0,
       tool_prompted_pmids |-> pubData.pmids,
       tool_result_pmids |-> positives,
       failed_result_discoveries |-> failedResultDiscoveries ]

\* the rows FINALIZE writes a summary for
Finalizable(p, r) ==
  /\ ExtractTrialId(r) # NoId
  /\ ExtractTrialId(r) \in p.registrations
  /\ p.publications[ExtractTrialId(r)].has

FinEnter ==
  /\ pc = "main" /\ progress.stage = STAGES.FINALIZE
  /\ pc' = "FIN" /\ cur' = STAGES.FINALIZE /\ i' = 1
  /\ UNCHANGED << ret, loc, progress, created, createdTok >>
  /\ StageFrame /\ UNCHANGED fsVars /\ UNCHANGED envVars

FinSkip ==
  /\ pc = "FIN" /\ i <= Len(rows) /\ ~Finalizable(progress, i)
  /\ i' = i + 1
  /\ UNCHANGED << pc, ret, cur, loc, progress, created, createdTok >>
  /\ StageFrame /\ UNCHANGED fsVars /\ UNCHANGED envVars

\* "Write JSON payload"
FinSidecar ==
  /\ pc = "FIN" /\ i <= Len(rows) /\ Finalizable(progress, i)
  /\ sidecars' = sidecars \cup { ExtractTrialId(i) }
  /\ pc' = "FIN_append"
  /\ UNCHANGED << ret, cur, i, loc, progress, created, createdTok,
                  inputFiles, results, csv >>
  /\ StageFrame /\ UNCHANGED envVars

\* "Append to CSV", then recordRowStatus
FinAppend ==
  /\ pc = "FIN_append"
  /\ csv' = Append(csv, Summary(results, ExtractTrialId(i),
                                progress.publications[ExtractTrialId(i)]))
  /\ progress' = RecordRowStatus(progress, i, "success")
  /\ pc' = "FIN" /\ i' = i + 1
  /\ UNCHANGED << ret, cur, loc, created, createdTok, inputFiles,
                  results, sidecars >>
  /\ StageFrame /\ UNCHANGED envVars

FinDone ==
  /\ pc = "FIN" /\ i > Len(rows)
  /\ progress' = [ progress EXCEPT !.stage = STAGES.COST_CALCULATION ]
  /\ ThenSave("main")
  /\ UNCHANGED << cur, i, loc, created, createdTok >>
  /\ StageFrame /\ UNCHANGED fsVars /\ UNCHANGED envVars

\* the cost report reads the output files and changes nothing but the stage
CostCalculation ==
  /\ pc = "main" /\ progress.stage = STAGES.COST_CALCULATION
  /\ progress' = [ progress EXCEPT !.stage = STAGES.COMPLETE ]
  /\ cur' = STAGES.COST_CALCULATION /\ ThenSave("main")
  /\ UNCHANGED << i, loc, created, createdTok >>
  /\ StageFrame /\ UNCHANGED fsVars /\ UNCHANGED envVars

(***************************************************************************)
(* The batch driver with kills, torn writes and failed uploads.            *)
(***************************************************************************)
\* the steps of a run that nothing interrupts and no batch fails
CoreStep ==
  \/ PrepEnter \/ PrepSkipNoId \/ PrepFetch \/ PrepDone
  \/ QguSkip \/ QguEnter \/ QguNoValidTrials \/ QguUploadFile \/ QguCreateBatch \/ QguDone
  \/ QgpEnter \/ QgpRetrieve \/ QgpAdvance \/ QgpSleep
  \/ QgprocEnter \/ QgprocDownload \/ QgprocDone
  \/ PubEnter \/ PubSkip \/ PubSkipNoRegistration \/ PubDiscover \/ PubDone
  \/ PrepareChunks
  \/ RguExhausted \/ RguStart \/ RguCreateBatch \/ RguBatchCreated \/ RguDone
  \/ RgpEnter \/ RgpPoll \/ RgpAdvance \/ RgpSleep
  \/ RgprocEnter \/ RgprocChunk \/ RgprocDone
  \/ FinEnter \/ FinSkip \/ FinSidecar \/ FinAppend \/ FinDone
  \/ CostCalculation
  \/ SaveProgress \/ Finish

\* the steps only a resumed run or a failed batch leads to
RecoveryStep ==
  \/ PrepSkipFetched
  \/ QgpNoOutput \/ QgpFailed
  \/ RgpNothingUploaded \/ RgpPollThrows
  \/ RgprocNothingCompleted

StageStep == CoreStep \/ RecoveryStep

Next ==
  \/ StageStep
  \/ Restart \/ Kill \/ TornSave \/ RguUploadFails
  \/ QueryServiceAdvance \/ ServiceAdvance \/ ServiceCancels \/ NextDay

Spec == Init /\ [][Next]_vars

(***************************************************************************)
(* The batch driver that nothing kills: every batch completes with output, *)
(* the event loop runs the driver, and after a daily-budget stop the       *)
(* operator starts it again, on a later day if need be.                    *)
(***************************************************************************)
\* "Restart tomorrow to continue": the operator starts the driver on the
\* day after a daily-budget stop
RestartNextDay ==
  /\ pc = "exhausted" /\ day < MaxDay
  /\ day' = day + 1
  /\ progress' = LoadProgress(disk)
  /\ pc' = "main"
  /\ UNCHANGED << ret, cur, i, loc, disk, pk, compVars, rows, config, regAnswer, pubAnswer,
                  llmAnswer, svc, qsvc >>
  /\ UNCHANGED fsVars /\ UNCHANGED histVars

\* days pass between the runs
LiveNext ==
  \/ CoreStep
  \/ Restart \/ RestartNextDay
  \/ QueryServiceCompletes \/ ServiceCompletes

LiveSpec ==
  /\ Init /\ [][LiveNext]_vars
  /\ WF_vars(CoreStep \/ Restart)
  /\ SF_vars(QueryServiceCompletes) /\ SF_vars(ServiceCompletes)
  /\ SF_vars(RestartNextDay)

(***************************************************************************)
(* The packing loop of RESULT_GEN_PREPARATION on arbitrary request sizes   *)
(* and limits.                                                             *)
(***************************************************************************)
RECURSIVE SeqsUpTo(_, _)
SeqsUpTo(S, n) ==
  IF n = 0 THEN { <<>> }
  ELSE SeqsUpTo(S, n - 1)
       \cup { Append(q, x) : q \in { r \in SeqsUpTo(S, n - 1) : Len(r) = n - 1 }, x \in S }

\* requests k = 1, 2, ... with the given sizes in bytes, one token each
SizedRequests(sizes) ==
  [ k \in 1..Len(sizes) |-> [ id |-> << "T1", k >>, tokens |-> 1, bytes |-> sizes[k] ] ]

PackLimits ==
  [ maxRequestsPerBatch : 1..MaxBatchRequests, effectiveMaxBytes : 1..MaxBatchBytes ]

DriverIdle ==
  /\ pc = "stopped" /\ ret = "none" /\ cur = "none" /\ i = 0 /\ loc = NoLoc
  /\ rows = << "T1", NoId >>
  /\ progress = FreshProgress
  /\ disk = NoFile /\ lastGood = NoFile
  /\ inputFiles = <<>> /\ results = [ pr \in Pairs |-> "none" ]
  /\ sidecars = {} /\ csv = <<>>
  /\ config = [ strategies |-> {}, maxTokensPerDay |-> 1,
                maxRequestsPerBatch |-> 1, effectiveMaxBytes |-> 2 ]
  /\ day = 1
  /\ regAnswer = [ t \in TrialIds |-> "?" ]
  /\ pubAnswer = [ t \in TrialIds |-> NoDiscovery ]
  /\ llmAnswer = [ pr \in Pairs |-> "?" ]
  /\ svc = [ c \in ChunkSlots |-> "none" ]
  /\ qsvc = [ v \in Variants |-> "none" ]
  /\ created = [ c \in ChunkSlots |-> 0 ]
  /\ createdTok = [ d \in 1..MaxDay |-> 0 ]
  /\ kills = 0 /\ lateKill = FALSE
  /\ chunkHigh = [ c \in ChunkSlots |-> 0 ]

PackInit ==
  /\ DriverIdle
  /\ \E sizes \in SeqsUpTo(1..MaxRequestBytes, MaxRequests) : \E lim \in PackLimits :
       pk = [ at |-> "loop", todo |-> SizedRequests(sizes), st |-> PackStart,
              written |-> <<>>, lim |-> lim ]
  /\ ComponentsIdle

driverVars == << pc, ret, cur, i, loc, progress, disk, inputFiles, results, sidecars,
                 csv, rows, config, day, regAnswer, pubAnswer, llmAnswer, svc, qsvc,
                 created, createdTok, kills, lateKill, lastGood, chunkHigh >>

\* one iteration of the loop body
PackRequest ==
  /\ pk.at = "loop" /\ pk.todo # <<>>
  /\ pk' = [ pk EXCEPT !.st = AddRequest(pk.st, Head(pk.todo), pk.lim),
                       !.todo = Tail(pk.todo) ]
  /\ UNCHANGED << driverVars, compVars >>

\* after the loop: the last chunk, then the metadata of the written chunks
PackWrite ==
  /\ pk.at = "loop" /\ pk.todo = <<>>
  /\ pk' = [ pk EXCEPT !.at = "written",
                       !.written = ChunksMetadata(FinishPacking(pk.st)) ]
  /\ UNCHANGED << driverVars, compVars >>

PackNext == PackRequest \/ PackWrite

PackSpec == PackInit /\ [][PackNext]_vars

(***************************************************************************)
(* The summary of a trial, as the live driver builds it (buildSummary) and *)
(* as FINALIZE builds it.  A publication is [pmid, verdict]: the PMID      *)
(* (NoPmid when the publication has none) and what result detection gives  *)
(* for it.                                                                 *)
(***************************************************************************)
NoPmid == 0

\* a filter that keeps the publications without PMID too
AllPublications(pubs) == pubs

\* "publicationsWithPmids": publications.filter((pub) => !!pub?.pmid)
RECURSIVE PublicationsWithPmids(_)
PublicationsWithPmids(pubs) ==
  IF pubs = <<>> THEN <<>>
  ELSE (IF Head(pubs).pmid # NoPmid THEN << Head(pubs) >> ELSE <<>>)
       \o PublicationsWithPmids(Tail(pubs))

\* the live driver's detectionResults: resultsDiscovery of every publication,
\* a throwing call caught and recorded as hasResults false
DetectionResults(pubs) ==
  [ k \in 1..Len(pubs) |->
      [ pmid |-> pubs[k].pmid,
        hasResults |-> pubs[k].verdict = "pos",
        failed |-> pubs[k].verdict = "throw" ] ]

\* the tests buildSummary applies to a detection result
Keeps(res, test) ==
  CASE test = "positive" -> res.hasResults
    [] test = "failed" -> res.failed
    [] OTHER -> TRUE

\* the PMIDs of the detection results that pass the test, in order,
\* ".filter(Boolean)" applied
RECURSIVE PmidsOf(_, _)
PmidsOf(detectionResults, test) ==
  IF detectionResults = <<>> THEN <<>>
  ELSE (IF Keeps(Head(detectionResults), test) /\ Head(detectionResults).pmid # NoPmid
        THEN << Head(detectionResults).pmid >> ELSE <<>>)
       \o PmidsOf(Tail(detectionResults), test)

RECURSIVE CountOf(_, _)
CountOf(detectionResults, test) ==
  IF detectionResults = <<>> THEN 0
  ELSE (IF Keeps(Head(detectionResults), test) THEN 1 ELSE 0)
       + CountOf(Tail(detectionResults), test)

\* buildSummary of the live driver
BuildSummary(trialId, publicationErrors, detectionResults, rowError) ==
  [ trial_id |-> trialId,
    tool_results |-> CountOf(detectionResults, "positive") > 0,
    has_error |-> rowError \/ publicationErrors
                  \/ CountOf(detectionResults, "failed") > 0,
    tool_prompted_pmids |-> PmidsOf(detectionResults, "any"),
    tool_result_pmids |-> PmidsOf(detectionResults, "positive"),
    failed_result_discoveries |-> PmidsOf(detectionResults, "failed") ]

\* the summary the live driver's processRow builds from what discovery gave
LiveSummary(trialId, pubs, publicationErrors) ==
  BuildSummary(trialId, publicationErrors,
               DetectionResults(PublicationsWithPmids(pubs)), FALSE)

\* the result files RESULT_GEN_PROCESS leaves for the publications of a trial
StoreOf(trialId, pubs) ==
  [ pr \in {trialId} \X (Range([ k \in 1..Len(pubs) |-> pubs[k].pmid ]) \cup {NoPmid}) |->
      IF \E k \in 1..Len(pubs) : pubs[k].pmid = pr[2] /\ pubs[k].verdict = "pos" THEN "pos"
      ELSE IF \E k \in 1..Len(pubs) : pubs[k].pmid = pr[2] /\ pubs[k].verdict = "neg" THEN "neg"
      ELSE "none" ]

\* the summary FINALIZE builds from the stored publications and result files
FinalizeSummary(trialId, pubs, publicationErrors) ==
  LET withPmids == PublicationsWithPmids(pubs) IN
  Summary(StoreOf(trialId, pubs), trialId,
          [ has |-> TRUE,
            pmids |-> [ k \in 1..Len(withPmids) |-> withPmids[k].pmid ],
            errors |-> publicationErrors ])

(***************************************************************************)
(* The live driver (runner/live.js): one process that works through the    *)
(* rows of its plan, with crashes, torn writes and restarts.               *)
(*   lv.at       position of the process ("stopped" when none runs)        *)
(*   lv.ret      where a pending saveProgress continues                    *)
(*   lv.plan     the rows still to process                                 *)
(*   lv.rows     progress.rows of the process                              *)
(*   lv.file     the Progress file                                         *)
(*   lv.json     the sidecar <trialId>.json of each row                    *)
(*   lv.csv      the output CSV, header aside: [row, summary]              *)
(*   lv.summary  the summary of the row in work                            *)
(***************************************************************************)
\* crashes per behaviour of the live driver
MaxCrashes == 2

LiveTable == << "T1", NoId >>
LiveRows == DOMAIN LiveTable

\* what discovery and result detection give for a trial: the publications
\* (with and without PMID) and their verdicts
LivePublications ==
  { <<>>,
    << [ pmid |-> 1, verdict |-> "pos" ] >>,
    << [ pmid |-> 1, verdict |-> "neg" ] >>,
    << [ pmid |-> NoPmid, verdict |-> "pos" ], [ pmid |-> 2, verdict |-> "throw" ] >> }

NoEntry == [ status |-> "none", jsonWritten |-> FALSE, csvAppended |-> FALSE ]
NoSummary == BuildSummary(NoId, FALSE, <<>>, FALSE)
FreshLiveRows == [ r \in LiveRows |-> NoEntry ]

\* normalizeProgress
NormalizeProgress(entries) ==
  [ r \in DOMAIN entries |->
      IF entries[r].status = "processing" /\ entries[r].jsonWritten /\ entries[r].csvAppended
      THEN [ entries[r] EXCEPT !.status = "success" ]
      ELSE entries[r] ]

\* loadProgress of the live driver
LiveLoadProgress(file) ==
  IF file.kind # "ok" THEN FreshLiveRows ELSE NormalizeProgress(file.data)

\* a plan that takes every row
ShouldProcessEveryRow(entries, r, retryErrors) == TRUE

\* shouldProcessRow
ShouldProcessRow(entries, r, retryErrors) ==
  CASE entries[r].status = "none" -> TRUE
    [] entries[r].status = "success" -> FALSE
    [] entries[r].status = "error" -> retryErrors
    [] OTHER -> TRUE

\* main's plan: the rows to process, in input order
RECURSIVE PlanFrom(_, _, _)
PlanFrom(entries, r, retryErrors) ==
  IF r > Len(LiveTable) THEN <<>>
  ELSE (IF ShouldProcessRow(entries, r, retryErrors) THEN << r >> ELSE <<>>)
       \o PlanFrom(entries, r + 1, retryErrors)

LiveStopped ==
  [ at |-> "stopped", ret |-> "none", plan |-> <<>>, rows |-> FreshLiveRows,
    file |-> [ kind |-> "none", data |-> FreshLiveRows ],
    json |-> [ r \in LiveRows |-> "none" ], csv |-> <<>>,
    summary |-> NoSummary, retryErrors |-> FALSE, crashes |-> 0 ]

LiveInit ==
  /\ DriverIdle /\ pk = IdlePacking /\ IdleExcept("lv")
  /\ \E retry \in BOOLEAN : lv = [ LiveStopped EXCEPT !.retryErrors = retry ]

LiveFrame == UNCHANGED << driverVars, pk, sm, dc, df, ch, pq, rg, rq, rb >>

\* the process is gone, its memory with it
LiveHalted(l) ==
  [ l EXCEPT !.at = "stopped", !.ret = "none", !.plan = <<>>,
             !.rows = FreshLiveRows, !.summary = NoSummary ]

\* main: loadProgress, then the plan
LiveStart ==
  /\ lv.at = "stopped"
  /\ lv' = [ lv EXCEPT !.at = "loop",
                       !.rows = LiveLoadProgress(lv.file),
                       !.plan = PlanFrom(LiveLoadProgress(lv.file), 1, lv.retryErrors) ]
  /\ LiveFrame

\* the process is killed at its current position
LiveCrash ==
  /\ lv.at \notin {"stopped", "done", "idle"} /\ lv.crashes < MaxCrashes
  /\ lv' = [ LiveHalted(lv) EXCEPT !.crashes = @ + 1 ]
  /\ LiveFrame

\* saveProgress of the live driver
LiveSaveProgress ==
  /\ lv.at = "save"
  /\ lv' = [ lv EXCEPT !.file = [ kind |-> "ok", data |-> lv.rows ],
                       !.at = lv.ret, !.ret = "none" ]
  /\ LiveFrame

\* the process is killed inside the writeFileSync of saveProgress
LiveTornSave ==
  /\ lv.at = "save" /\ lv.crashes < MaxCrashes
  /\ lv' = [ LiveHalted(lv) EXCEPT !.crashes = @ + 1,
                                   !.file = [ kind |-> "corrupt", data |-> FreshLiveRows ] ]
  /\ LiveFrame

\* recordRowStatus of the live driver: the entry is merged with the old one
LiveRecordRowStatus(entries, r, status) == [ entries EXCEPT ![r].status = status ]

\* processRow on a row without trial id throws before anything is recorded
LiveRowNoId ==
  /\ lv.at = "loop" /\ lv.plan # <<>> /\ LiveTable[Head(lv.plan)] = NoId
  /\ lv' = [ lv EXCEPT !.plan = Tail(@) ]
  /\ LiveFrame

\* processRow: status "processing" is recorded and saved
LiveRowStart ==
  /\ lv.at = "loop" /\ lv.plan # <<>> /\ LiveTable[Head(lv.plan)] # NoId
  /\ lv' = [ lv EXCEPT !.rows = LiveRecordRowStatus(@, Head(lv.plan), "processing"),
                       !.at = "save", !.ret = "discover" ]
  /\ LiveFrame

\* registration and publication discovery, the date filters and result
\* detection, then buildSummary
LiveDiscover ==
  /\ lv.at = "discover"
  /\ \E pubs \in LivePublications : \E publicationErrors \in BOOLEAN :
       lv' = [ lv EXCEPT !.summary = LiveSummary(LiveTable[Head(lv.plan)], pubs,
                                                 publicationErrors),
                         !.at = "json" ]
  /\ LiveFrame

\* registrationDiscovery or publicationDiscovery throws: the error JSON is
\* written, the row is recorded as failed, and main goes on with the next row
LiveDiscoverThrows ==
  /\ lv.at = "discover"
  /\ lv' = [ lv EXCEPT !.rows = LiveRecordRowStatus(@, Head(lv.plan), "error"),
                       !.plan = Tail(@),
                       !.at = "save", !.ret = "loop" ]
  /\ LiveFrame

\* fs.writeFileSync of the sidecar, then jsonWritten is recorded and saved
LiveWriteJson ==
  /\ lv.at = "json"
  /\ lv' = [ lv EXCEPT !.json[Head(lv.plan)] = "written",
                       !.rows[Head(lv.plan)].jsonWritten = TRUE,
                       !.at = "save", !.ret = "append" ]
  /\ LiveFrame

\* the process is killed inside the writeFileSync of the sidecar: the file
\* is truncated or partly written
LiveTornJson ==
  /\ lv.at = "json" /\ lv.crashes < MaxCrashes
  /\ lv' = [ LiveHalted(lv) EXCEPT !.crashes = @ + 1,
                                   !.json[Head(lv.plan)] = "torn" ]
  /\ LiveFrame

\* appendSummaryRow, then csvAppended is recorded and saved
LiveAppend ==
  /\ lv.at = "append"
  /\ lv' = [ lv EXCEPT !.csv = Append(@, [ row |-> Head(lv.plan), summary |-> lv.summary ]),
                       !.rows[Head(lv.plan)].csvAppended = TRUE,
                       !.at = "save", !.ret = "success" ]
  /\ LiveFrame

\* the row is recorded as done and saved
LiveRowDone ==
  /\ lv.at = "success"
  /\ lv' = [ lv EXCEPT !.rows[Head(lv.plan)] =
                          [ status |-> "success", jsonWritten |-> TRUE, csvAppended |-> TRUE ],
                       !.plan = Tail(@),
                       !.at = "save", !.ret = "loop" ]
  /\ LiveFrame

\* the plan is worked off
LiveFinish ==
  /\ lv.at = "loop" /\ lv.plan = <<>>
  /\ lv' = [ lv EXCEPT !.at = "done" ]
  /\ LiveFrame

\* the operator starts the driver again on the same input
LiveAgain ==
  /\ lv.at = "done" /\ lv.crashes < MaxCrashes
  /\ lv' = [ LiveHalted(lv) EXCEPT !.crashes = @ + 1 ]
  /\ LiveFrame

LiveDriverNext ==
  \/ LiveStart \/ LiveCrash \/ LiveSaveProgress \/ LiveTornSave
  \/ LiveRowNoId \/ LiveRowStart \/ LiveDiscover \/ LiveDiscoverThrows
  \/ LiveWriteJson \/ LiveTornJson \/ LiveAppend \/ LiveRowDone
  \/ LiveFinish \/ LiveAgain

LiveDriverSpec == LiveInit /\ [][LiveDriverNext]_vars

(***************************************************************************)
(* The summary builders on arbitrary publications and verdicts.            *)
(***************************************************************************)
\* publications of one trial
MaxPublications == 2

Verdicts == {"pos", "neg", "throw"}
SomePublications ==
  SeqsUpTo([ pmid : Pmids \cup {NoPmid}, verdict : Verdicts ], MaxPublications)

SummaryInit ==
  /\ DriverIdle /\ pk = IdlePacking /\ IdleExcept("sm")
  /\ \E pubs \in SomePublications : \E publicationErrors \in BOOLEAN :
       sm = [ at |-> "input", pubs |-> pubs, publicationErrors |-> publicationErrors,
              live |-> NoSummary, batch |-> NoSummary, built |-> {} ]

\* the live driver builds the summary of the trial
SummaryLive ==
  /\ sm.at = "input" /\ "live" \notin sm.built
  /\ sm' = [ sm EXCEPT !.live = LiveSummary("T1", sm.pubs, sm.publicationErrors),
                       !.built = @ \cup {"live"} ]
  /\ UNCHANGED << driverVars, pk, lv, dc, df, ch, pq, rg, rq, rb >>

\* FINALIZE builds the summary of the trial
SummaryFinalize ==
  /\ sm.at = "input" /\ "batch" \notin sm.built
  /\ sm' = [ sm EXCEPT !.batch = FinalizeSummary("T1", sm.pubs, sm.publicationErrors),
                       !.built = @ \cup {"batch"} ]
  /\ UNCHANGED << driverVars, pk, lv, dc, df, ch, pq, rg, rq, rb >>

SummaryNext == SummaryLive \/ SummaryFinalize

SummarySpec == SummaryInit /\ [][SummaryNext]_vars

(***************************************************************************)
(* Publication discovery for one registration (discovery/publication):     *)
(* the strategies, the deduplication and the enrichment from PubMed.       *)
(***************************************************************************)
\* results one strategy returns
MaxResults == 2

\* the configured strategies, in the order of the configuration
Strategies == << "linked_at_registration", "pubmed_naive", "pubmed_gpt_v2_batch" >>

\* SEARCH_FUNCTIONS[strategyName].name
FnName(strategyName) ==
  CASE strategyName = "linked_at_registration" -> "searchLinkedAtRegistration"
    [] strategyName = "pubmed_naive" -> "searchPubmedNaive"
    [] OTHER -> "searchPubmedGptQueryBatchV2"

\* a field the object does not have, and JSON's null
Undefined == "undefined"
Null == "null"
Truthy(value) == value \notin {"", Undefined, Null}

\* the DOI of a PubMed record: parsePubmedRecord gives a string or null
Dois == {Null, "10.1000/a"}
\* PubMed has no record of the PMID
Missing == "missing"

\* messages of the errors a strategy throws
Messages == {"ENOENT: no such file or directory", ""}

\* a strategy resolves to { results } or throws
Outcomes ==
  [ kind : {"results"}, pmids : SeqsUpTo(Pmids, MaxResults), message : {Undefined} ]
    \cup [ kind : {"throws"}, pmids : {<<>>}, message : Messages ]

\* a wrapper that swallows the failure of its strategy
WrappedStrategySilent(strategyName, outcome) ==
  [ results |-> [ k \in 1..Len(outcome.pmids) |->
                    [ pmid |-> outcome.pmids[k], doi |-> Undefined,
                      sources |-> << strategyName >> ] ],
    fn |-> FnName(strategyName),
    error |-> Undefined ]

\* searchFunctionsWithWrappers: the strategy with error handling and source
\* tagging
WrappedStrategy(strategyName, outcome) ==
  IF outcome.kind = "results"
    THEN [ results |-> [ k \in 1..Len(outcome.pmids) |->
                           [ pmid |-> outcome.pmids[k], doi |-> Undefined,
                             sources |-> << strategyName >> ] ],
           fn |-> FnName(strategyName),
           error |-> Undefined ]
    ELSE [ results |-> <<>>, fn |-> FnName(strategyName), error |-> outcome.message ]

\* [...new Set(array)]: the first occurrence of each element, in order
RECURSIVE Unique(_)
Unique(array) ==
  IF array = <<>> THEN <<>>
  ELSE << Head(array) >> \o Unique(SelectSeq(Tail(array), LAMBDA x : x # Head(array)))

\* discoverPublications: all strategies settle, then results and errors are
\* collected
DiscoverPublications(outcomes) ==
  LET searchResults ==
        [ k \in 1..Len(Strategies) |-> WrappedStrategy(Strategies[k], outcomes[k]) ]
  IN  [ discoveredPublications |->
          FlattenSeq([ k \in 1..Len(searchResults) |-> searchResults[k].results ]),
        errors |-> SelectSeq(searchResults, LAMBDA s : Truthy(s.error)) ]

\* a deduplication that keeps every publication
KeepDuplicatePublications(publications) == publications

\* the reduce of removeDuplicatePublications: an object keyed by pmid
RECURSIVE UniquePubSet(_, _)
UniquePubSet(publications, prev) ==
  IF publications = <<>> THEN prev
  ELSE LET curPub == Head(publications)
       IN  UniquePubSet(Tail(publications),
             IF curPub.pmid \in DOMAIN prev
               THEN [ prev EXCEPT ![curPub.pmid].sources =
                        Unique(curPub.sources \o prev[curPub.pmid].sources) ]
               ELSE [ p \in DOMAIN prev \cup {curPub.pmid} |->
                        IF p = curPub.pmid THEN curPub ELSE prev[p] ])

\* the keys of an object whose keys are integers: ascending
RECURSIVE Ascending(_)
Ascending(keys) ==
  IF keys = {} THEN <<>>
  ELSE LET m == CHOOSE x \in keys : \A y \in keys : x <= y
       IN  << m >> \o Ascending(keys \ {m})

RemoveDuplicatePublications(publications) ==
  LET uniquePubSet == UniquePubSet(publications, [ p \in {} |-> p ])
      keys == Ascending(DOMAIN uniquePubSet)
  IN  [ k \in 1..Len(keys) |-> uniquePubSet[keys[k]] ]

\* fetchPubmedRefs: the records PubMed has for the requested PMIDs
RECURSIVE FetchPubmedRefs(_, _)
FetchPubmedRefs(pmids, catalog) ==
  IF pmids = <<>> THEN <<>>
  ELSE (IF catalog[Head(pmids)] = Missing THEN <<>>
        ELSE << [ pmid |-> Head(pmids), doi |-> catalog[Head(pmids)] ] >>)
       \o FetchPubmedRefs(Tail(pmids), catalog)

AddBackSource(pubs, pubsWithSource) ==
  [ k \in 1..Len(pubs) |->
      LET pub == pubs[k]
          withPmid == SelectSeq(pubsWithSource, LAMBDA p : p.pmid = pub.pmid)
          withDoi == SelectSeq(pubsWithSource, LAMBDA p : p.doi = pub.doi)
          sourcesPmid == FlattenSeq([ j \in 1..Len(withPmid) |-> withPmid[j].sources ])
          sourcesDoi == FlattenSeq([ j \in 1..Len(withDoi) |-> withDoi[j].sources ])
      IN  [ pmid |-> pub.pmid, doi |-> pub.doi,
            sources |-> Unique(sourcesPmid \o sourcesDoi) ] ]

\* publicationDiscovery after discoverPublications has returned
EnrichedPublications(discoveredPublications, catalog) ==
  LET uniquePublications == RemoveDuplicatePublications(discoveredPublications)
      discoveredPmids ==
        [ k \in 1..Len(uniquePublications) |-> uniquePublications[k].pmid ]
      pubsWithAbstracts == FetchPubmedRefs(discoveredPmids, catalog)
  IN  AddBackSource(pubsWithAbstracts, discoveredPublications)

DiscoveryInit ==
  /\ DriverIdle /\ pk = IdlePacking /\ IdleExcept("dc")
  /\ \E outcomes \in [ 1..Len(Strategies) -> Outcomes ] :
       \E catalog \in [ Pmids -> Dois \cup {Missing} ] :
         dc = [ at |-> "called", outcomes |-> outcomes, catalog |-> catalog,
                discoveredPublications |-> <<>>, errors |-> <<>>,
                publications |-> <<>>, detectionResults |-> <<>>,
                toolIdentSteps |-> <<>> ]

DiscoveryFrame == UNCHANGED << driverVars, pk, lv, sm, df, ch, pq, rg, rq, rb >>

\* discoverPublications: Promise.all over the wrapped strategies settles
DiscoveryStrategies ==
  /\ dc.at = "called"
  /\ LET found == DiscoverPublications(dc.outcomes)
     IN  dc' = [ dc EXCEPT !.at = "settled",
                           !.discoveredPublications = found.discoveredPublications,
                           !.errors = found.errors ]
  /\ DiscoveryFrame

\* deduplication, the fetch of the PubMed records, and the sources put back
DiscoveryEnrich ==
  /\ dc.at = "settled"
  /\ dc' = [ dc EXCEPT !.at = "returned",
                       !.publications =
                         EnrichedPublications(dc.discoveredPublications, dc.catalog) ]
  /\ DiscoveryFrame

\* the fetch of the PubMed records fails after its retries
DiscoveryFetchThrows ==
  /\ dc.at = "settled"
  /\ dc.discoveredPublications # <<>>
  /\ dc' = [ dc EXCEPT !.at = "threw" ]
  /\ DiscoveryFrame

\* what the result file of a publication says: hasResults true or false, or
\* there is no readable result file
DetectionVerdicts == {"pos", "neg", "none"}

\* toolIdentSteps for the first positive publication only
RECURSIVE ToolIdentStepsOfFirst(_)
ToolIdentStepsOfFirst(detectionResults) ==
  IF detectionResults = <<>> THEN <<>>
  ELSE IF Head(detectionResults).hasResults THEN Head(detectionResults).sources
  ELSE ToolIdentStepsOfFirst(Tail(detectionResults))

\* [...new Set(positives.flatMap((res) => res.sources || []))].filter(Boolean)
ToolIdentSteps(detectionResults) ==
  LET positives == SelectSeq(detectionResults, LAMBDA res : res.hasResults)
  IN  SelectSeq(Unique(FlattenSeq([ k \in 1..Len(positives) |-> positives[k].sources ])),
                Truthy)

\* FINALIZE reads the result file of each stored publication and builds the
\* tool_ident_steps of the summary row
DiscoveryFinalize ==
  /\ dc.at = "returned"
  /\ \E verdicts \in [ 1..Len(dc.publications) -> DetectionVerdicts ] :
       LET detectionResults ==
             [ k \in 1..Len(dc.publications) |->
                 [ pmid |-> dc.publications[k].pmid,
                   sources |-> dc.publications[k].sources,
                   hasResults |-> verdicts[k] = "pos" ] ]
       IN  dc' = [ dc EXCEPT !.at = "summarised",
                             !.detectionResults = detectionResults,
                             !.toolIdentSteps = ToolIdentSteps(detectionResults) ]
  /\ DiscoveryFrame

DiscoveryNext ==
  DiscoveryStrategies \/ DiscoveryEnrich \/ DiscoveryFetchThrows \/ DiscoveryFinalize

DiscoverySpec == DiscoveryInit /\ [][DiscoveryNext]_vars

(***************************************************************************)
(* The date filters (utils: maxDateFilter, minDateFilter) and their use    *)
(* by PUB_DISCOVERY.  Dates are days; "new Date(...)" of a string that is  *)
(* no date is NaN.                                                         *)
(***************************************************************************)
\* publications of one list, and the days of the calendar
MaxFiltered == 3
MaxDate == 3

\* publicationDate or startDate missing (undefined, null, "")
NoDate == 0
\* a string that "new Date" cannot read
InvalidDate == -1
Dates == 1..MaxDate
\* the cutoff of a validation run (2020-11-17 or 2023-02-15)
ValidationMaxDate == 2

IsNaN(date) == date \notin Dates

\* the lists to filter: publication k carries pmid k
SomeDatedPublications ==
  { [ k \in 1..Len(dates) |-> [ pmid |-> k, publicationDate |-> dates[k] ] ] :
      dates \in SeqsUpTo(Dates \cup {NoDate, InvalidDate}, MaxFiltered) }

FilterThrows == [ threw |-> TRUE, eligible |-> <<>>, filtered |-> <<>> ]

\* the loop of the two filters; "keep" tells on which side of the cutoff
\* the eligible publications are
RECURSIVE DateFilterLoop(_, _, _, _, _)
DateFilterLoop(publications, cutoffDate, keep, eligible, filtered) ==
  IF publications = <<>>
    THEN [ threw |-> FALSE, eligible |-> eligible, filtered |-> filtered ]
  ELSE LET publication == Head(publications)
           pubDate == publication.publicationDate
           rest == Tail(publications)
       IN  IF pubDate = NoDate
             THEN DateFilterLoop(rest, cutoffDate, keep,
                                 Append(eligible, publication), filtered)
           ELSE IF IsNaN(pubDate)
             THEN DateFilterLoop(rest, cutoffDate, keep, eligible, filtered)
           ELSE IF (keep = "before" /\ pubDate < cutoffDate)
                     \/ (keep = "from" /\ pubDate >= cutoffDate)
             THEN DateFilterLoop(rest, cutoffDate, keep,
                                 Append(eligible, publication), filtered)
           ELSE DateFilterLoop(rest, cutoffDate, keep,
                               eligible, Append(filtered, publication))

MaxDateFilter(publications, maxDate) ==
  IF maxDate = NoDate \/ IsNaN(maxDate) THEN FilterThrows
  ELSE DateFilterLoop(publications, maxDate, "before", <<>>, <<>>)

\* a filter that lets every publication through
MinDateFilterKeepsAll(publications, minDate) ==
  [ threw |-> FALSE, eligible |-> publications, filtered |-> <<>> ]

MinDateFilter(publications, minDate) ==
  IF minDate = NoDate \/ IsNaN(minDate) THEN FilterThrows
  ELSE DateFilterLoop(publications, minDate, "from", <<>>, <<>>)

\* PUB_DISCOVERY after publicationDiscovery: the max-date filter of a
\* validation run, then the min-date filter if the registration has a
\* startDate
StageFilters(publications, validationRun, startDate) ==
  LET max == IF validationRun THEN MaxDateFilter(publications, ValidationMaxDate)
             ELSE [ threw |-> FALSE, eligible |-> publications, filtered |-> <<>> ]
      min == IF startDate # NoDate THEN MinDateFilter(max.eligible, startDate)
             ELSE [ threw |-> FALSE, eligible |-> max.eligible, filtered |-> <<>> ]
  IN  IF min.threw THEN FilterThrows
      ELSE [ threw |-> FALSE, eligible |-> min.eligible,
             filtered |-> max.filtered \o min.filtered ]

NotFiltered == [ threw |-> FALSE, eligible |-> <<>>, filtered |-> <<>> ]

\* progress.publications[trialId] before PUB_DISCOVERY stored it, and the
\* entry PUB_DISCOVERY stores
NoPubData == [ has |-> FALSE ]
PubData(outcome) ==
  [ has |-> TRUE, publications |-> outcome.eligible,
    filteredPublications |-> outcome.filtered ]

\* "pubData.field || []"
FieldOrEmpty(pubData, field) ==
  IF field \in DOMAIN pubData THEN pubData[field] ELSE <<>>

\* the publication lists of the JSON payload FINALIZE writes for the trial
NoPayload == [ written |-> FALSE ]
SidecarPayload(pubData) ==
  [ written |-> TRUE,
    publications |-> FieldOrEmpty(pubData, "publications"),
    publicationsFilteredByStartDate |-> FieldOrEmpty(pubData, "publicationsBeforeStart") ]

DateFilterInit ==
  /\ DriverIdle /\ pk = IdlePacking /\ IdleExcept("df")
  /\ \E publications \in SomeDatedPublications :
       \E cutoff \in Dates \cup {NoDate, InvalidDate} :
         \E validationRun \in BOOLEAN :
           df = [ at |-> "input", publications |-> publications, cutoff |-> cutoff,
                  validationRun |-> validationRun, done |-> {},
                  max |-> NotFiltered, min |-> NotFiltered, stage |-> NotFiltered,
                  stored |-> NoPubData, payload |-> NoPayload ]

DateFilterFrame == UNCHANGED << driverVars, pk, lv, sm, dc, ch, pq, rg, rq, rb >>

DateFilterMax ==
  /\ df.at = "input" /\ "max" \notin df.done
  /\ df' = [ df EXCEPT !.max = MaxDateFilter(df.publications, df.cutoff),
                       !.done = @ \cup {"max"} ]
  /\ DateFilterFrame

DateFilterMin ==
  /\ df.at = "input" /\ "min" \notin df.done
  /\ df' = [ df EXCEPT !.min = MinDateFilter(df.publications, df.cutoff),
                       !.done = @ \cup {"min"} ]
  /\ DateFilterFrame

DateFilterStage ==
  /\ df.at = "input" /\ "stage" \notin df.done
  /\ LET outcome == StageFilters(df.publications, df.validationRun, df.cutoff) IN
       df' = [ df EXCEPT !.stage = outcome,
                         !.stored = IF outcome.threw THEN NoPubData ELSE PubData(outcome),
                         !.done = @ \cup {"stage"} ]
  /\ DateFilterFrame

\* FINALIZE for the trial: rows without stored publications are skipped
DateFilterFinalize ==
  /\ df.at = "input" /\ "stage" \in df.done /\ "payload" \notin df.done
  /\ df.stored.has
  /\ df' = [ df EXCEPT !.payload = SidecarPayload(df.stored),
                       !.done = @ \cup {"payload"} ]
  /\ DateFilterFrame

DateFilterNext ==
  DateFilterMax \/ DateFilterMin \/ DateFilterStage \/ DateFilterFinalize

DateFilterSpec == DateFilterInit /\ [][DateFilterNext]_vars

(***************************************************************************)
(* The read-through file cache (utils/cache.js: cacheResultToFile) on one  *)
(* key, with the calls of the event loop that await it.  Time is counted   *)
(* in units of the TTL.                                                    *)
(***************************************************************************)
\* concurrent calls on the key, the clock, and the TTL of the configuration
MaxCallers == 2
MaxNow == 3
MaxTtl == 2

Callers == 1..MaxCallers
\* ttl: null, "no expiration"
NoTtl == 0
\* what the producer can resolve to, and the data of an entry already there
ProducerValues == {1, 2}
StoredData == 0

NoCacheFile == [ kind |-> "none", timestamp |-> 0, ttl |-> NoTtl, data |-> 0 ]
\* the cache file before the calls: absent, not JSON, without the envelope,
\* or with it
CacheFiles ==
  { NoCacheFile,
    [ kind |-> "unreadable", timestamp |-> 0, ttl |-> NoTtl, data |-> 0 ],
    [ kind |-> "legacy", timestamp |-> 0, ttl |-> NoTtl, data |-> StoredData ] }
    \cup [ kind : {"enveloped"}, timestamp : 0..1, ttl : 0..MaxTtl,
           data : {StoredData} ]

\* a validity check that never lets an entry expire
IsCacheValidForever(cacheMetadata, now) == TRUE

\* isCacheValid; written entries always carry a timestamp
IsCacheValid(cacheMetadata, now) ==
  IF cacheMetadata.ttl = NoTtl THEN TRUE
  ELSE now - cacheMetadata.timestamp < cacheMetadata.ttl

NoCall ==
  [ at |-> "idle", seen |-> NoCacheFile, seenAt |-> 0, invoked |-> 0, result |-> 0,
    wrote |-> NoCacheFile, wroteAt |-> 0, overlapped |-> FALSE ]

CacheInit ==
  /\ DriverIdle /\ pk = IdlePacking /\ IdleExcept("ch")
  /\ \E file \in CacheFiles : \E ttl \in 0..MaxTtl :
       ch = [ at |-> "running", now |-> 1, file |-> file, ttl |-> ttl,
              calls |-> [ c \in Callers |-> NoCall ] ]

CacheFrame == UNCHANGED << driverVars, pk, lv, sm, dc, df, pq, rg, rq, rb >>

InFlight(calls) == { c \in Callers : calls[c].at = "producing" }

\* cacheResultToFile up to its return or to the call of the producer
CacheCall(c) ==
  /\ ch.at = "running" /\ ch.calls[c].at = "idle"
  /\ LET call == [ ch.calls[c] EXCEPT !.seen = ch.file, !.seenAt = ch.now,
                                     !.overlapped = InFlight(ch.calls) # {} ]
         others == [ d \in Callers |->
                       IF d \in InFlight(ch.calls)
                         THEN [ ch.calls[d] EXCEPT !.overlapped = TRUE ]
                         ELSE ch.calls[d] ]
     IN  ch' = [ ch EXCEPT !.calls =
           [ others EXCEPT ![c] =
               IF ch.file.kind = "enveloped" /\ IsCacheValid(ch.file, ch.now)
                 THEN [ call EXCEPT !.at = "returned", !.result = ch.file.data ]
               ELSE IF ch.file.kind = "legacy"
                 THEN [ call EXCEPT !.at = "returned", !.result = ch.file.data ]
               ELSE [ call EXCEPT !.at = "producing", !.invoked = @ + 1 ] ] ]
  /\ CacheFrame

\* the producer resolves: the entry is written with its envelope and the
\* result is returned
CacheProducerResolves(c) ==
  /\ ch.at = "running" /\ ch.calls[c].at = "producing"
  /\ \E result \in ProducerValues :
       LET cacheData == [ kind |-> "enveloped", timestamp |-> ch.now,
                          ttl |-> ch.ttl, data |-> result ]
       IN  ch' = [ ch EXCEPT !.file = cacheData,
                             !.calls[c] = [ @ EXCEPT !.at = "returned",
                                                     !.result = result,
                                                     !.wrote = cacheData,
                                                     !.wroteAt = ch.now ] ]
  /\ CacheFrame

\* the producer rejects: so does the call, and nothing is written
CacheProducerThrows(c) ==
  /\ ch.at = "running" /\ ch.calls[c].at = "producing"
  /\ ch' = [ ch EXCEPT !.calls[c].at = "threw" ]
  /\ CacheFrame

CacheTick ==
  /\ ch.at = "running" /\ ch.now < MaxNow
  /\ ch' = [ ch EXCEPT !.now = @ + 1 ]
  /\ CacheFrame

CacheNext ==
  \/ \E c \in Callers : CacheCall(c)
  \/ \E c \in Callers : CacheProducerResolves(c)
  \/ \E c \in Callers : CacheProducerThrows(c)
  \/ CacheTick

CacheSpec == CacheInit /\ [][CacheNext]_vars

(***************************************************************************)
(* The global PubMed queue (utils: pubmedQueue, rateLimitedPubmedCall): a  *)
(* PQueue with concurrency 4, 8 starts per interval and a timeout per      *)
(* task.  A task that times out settles its promise and gives its slot     *)
(* back; the request it started is not cancelled.                          *)
(***************************************************************************)
\* calls of rateLimitedPubmedCall, retries included
MaxCalls == 6

\* the options of pubmedQueue
Concurrency == 4
IntervalCap == 8

PubmedCalls == 1..MaxCalls

RunningTasks(calls) == { c \in PubmedCalls : calls[c] = "running" }

\* PQueue starts the next queued task if a slot and the interval allow it
TryToStartAnother(q) ==
  IF /\ q.queue # <<>>
     /\ Cardinality(RunningTasks(q.calls)) < Concurrency
     /\ q.intervalCount < IntervalCap
    THEN [ q EXCEPT !.calls[Head(q.queue)] = "running",
                    !.queue = Tail(q.queue),
                    !.intervalCount = @ + 1 ]
    ELSE q

\* PQueue at the start of an interval: it starts tasks while it can
RECURSIVE ProcessQueue(_)
ProcessQueue(q) ==
  IF TryToStartAnother(q) = q THEN q ELSE ProcessQueue(TryToStartAnother(q))

PubmedInit ==
  /\ DriverIdle /\ pk = IdlePacking /\ IdleExcept("pq")
  /\ pq = [ at |-> "running", enqueued |-> 0,
            calls |-> [ c \in PubmedCalls |-> "none" ],
            queue |-> <<>>, intervalCount |-> 0 ]

PubmedFrame == UNCHANGED << driverVars, pk, lv, sm, dc, df, ch, rg, rq, rb >>

\* rateLimitedPubmedCall: a strategy, a search string, a retry or the
\* enrichment adds its call to the queue
PubmedEnqueue ==
  /\ pq.at = "running" /\ pq.enqueued < MaxCalls
  /\ LET callId == pq.enqueued + 1
     IN  pq' = TryToStartAnother([ pq EXCEPT !.enqueued = callId,
                                             !.calls[callId] = "queued",
                                             !.queue = Append(@, callId) ])
  /\ PubmedFrame

\* the request of a running task ends, with a result or an error
PubmedSettle(c) ==
  /\ pq.at = "running" /\ pq.calls[c] = "running"
  /\ pq' = TryToStartAnother([ pq EXCEPT !.calls[c] = "settled" ])
  /\ PubmedFrame

\* the timeout of a running task elapses: its promise is settled and its
\* slot given back, while its request goes on
PubmedTimeout(c) ==
  /\ pq.at = "running" /\ pq.calls[c] = "running"
  /\ pq' = TryToStartAnother([ pq EXCEPT !.calls[c] = "abandoned" ])
  /\ PubmedFrame

\* the request of a task that timed out ends
PubmedLateEnd(c) ==
  /\ pq.at = "running" /\ pq.calls[c] = "abandoned"
  /\ pq' = [ pq EXCEPT !.calls[c] = "ended" ]
  /\ PubmedFrame

\* a new interval of the rate limit begins
PubmedInterval ==
  /\ pq.at = "running" /\ pq.intervalCount > 0
  /\ pq' = ProcessQueue([ pq EXCEPT !.intervalCount = 0 ])
  /\ PubmedFrame

PubmedNext ==
  \/ PubmedEnqueue
  \/ \E c \in PubmedCalls : PubmedSettle(c)
  \/ \E c \in PubmedCalls : PubmedTimeout(c)
  \/ \E c \in PubmedCalls : PubmedLateEnd(c)
  \/ PubmedInterval

PubmedSpec == PubmedInit /\ [][PubmedNext]_vars

(***************************************************************************)
(* Registry detection (registry/utils.js) and registration discovery      *)
(* (discovery/registration.js) for one trial id.  A string is the tuple of *)
(* its characters.                                                         *)
(***************************************************************************)
REGISTRY_TYPES ==
  [ CTGOV |-> "ctgov", EUCTR |-> "euctr", DRKS |-> "drks", UNKNOWN |-> "unknown" ]

Digit == {"0", "1", "2", "3", "4", "5", "6", "7", "8", "9"}
Whitespace == {" ", "\t", "\n"}

\* the upper case of a letter: the i flag of the patterns
ToUpper(c) ==
  CASE c = "n" -> "N" [] c = "c" -> "C" [] c = "t" -> "T"
    [] c = "d" -> "D" [] c = "r" -> "R" [] c = "k" -> "K" [] c = "s" -> "S"
    [] OTHER -> c

\* String.prototype.trim
RECURSIVE TrimStart(_)
TrimStart(str) ==
  IF str # <<>> /\ Head(str) \in Whitespace THEN TrimStart(Tail(str)) ELSE str

RECURSIVE TrimEnd(_)
TrimEnd(str) ==
  IF str # <<>> /\ str[Len(str)] \in Whitespace
    THEN TrimEnd(SubSeq(str, 1, Len(str) - 1)) ELSE str

Trim(str) == TrimEnd(TrimStart(str))

\* the characters from..to of the string are digits
AllDigits(str, from, to) == \A k \in from..to : str[k] \in Digit

\* /^NCT\d{8}$/i
MatchesCtgov(str) ==
  /\ Len(str) = 11
  /\ << ToUpper(str[1]), ToUpper(str[2]), ToUpper(str[3]) >> = << "N", "C", "T" >>
  /\ AllDigits(str, 4, 11)

\* /^\d{4}-\d{6}-\d{2}$/
MatchesEuctr(str) ==
  /\ Len(str) = 14
  /\ AllDigits(str, 1, 4) /\ str[5] = "-"
  /\ AllDigits(str, 6, 11) /\ str[12] = "-"
  /\ AllDigits(str, 13, 14)

\* /^DRKS\d{8}$/i
MatchesDrks(str) ==
  /\ Len(str) = 12
  /\ << ToUpper(str[1]), ToUpper(str[2]), ToUpper(str[3]), ToUpper(str[4]) >>
       = << "D", "R", "K", "S" >>
  /\ AllDigits(str, 5, 12)

\* a value of JavaScript: a string, or something else (undefined, null, a
\* number, an object)
Str(chars) == [ type |-> "string", chars |-> chars ]
NotAString == [ type : {"undefined", "null", "number", "object"}, chars : {<<>>} ]

\* a detection that takes everything that is no EUCTR or DRKS id for a
\* ClinicalTrials.gov id
DetectOrCtgov(trialId) ==
  IF trialId.type # "string" THEN REGISTRY_TYPES.CTGOV
  ELSE IF MatchesEuctr(Trim(trialId.chars)) THEN REGISTRY_TYPES.EUCTR
  ELSE IF MatchesDrks(Trim(trialId.chars)) THEN REGISTRY_TYPES.DRKS
  ELSE REGISTRY_TYPES.CTGOV

DetectRegistryType(trialId) ==
  IF trialId.type # "string" \/ trialId.chars = <<>> THEN REGISTRY_TYPES.UNKNOWN
  ELSE LET normalized == Trim(trialId.chars)
       IN  IF MatchesCtgov(normalized) THEN REGISTRY_TYPES.CTGOV
           ELSE IF MatchesEuctr(normalized) THEN REGISTRY_TYPES.EUCTR
           ELSE IF MatchesDrks(normalized) THEN REGISTRY_TYPES.DRKS
           ELSE REGISTRY_TYPES.UNKNOWN

\* the trial ids tried: a prefix, a body and a suffix, in every combination
Digits(n) == [ k \in 1..n |-> IF k = n THEN "7" ELSE "0" ]
IdPrefixes ==
  { <<>>, <<"N", "C", "T">>, <<"n", "c", "t">>, <<"N", "C">>,
    <<"D", "R", "K", "S">>, <<"d", "r", "K", "s">>, <<" ", "N", "C", "T">>,
    <<"X">> }
IdBodies ==
  { <<>>, Digits(7), Digits(8), Digits(9),
    Digits(4) \o <<"-">> \o Digits(6) \o <<"-">> \o Digits(2),
    Digits(4) \o <<"-">> \o Digits(6) \o <<"-">> \o Digits(3),
    Digits(4) \o <<"_">> \o Digits(6) \o <<"-">> \o Digits(2),
    Digits(7) \o <<"x">> }
IdSuffixes == { <<>>, <<" ">>, <<"\n">>, <<"a">> }
SomeTrialIds ==
  { Str(p \o b \o x) : p \in IdPrefixes, b \in IdBodies, x \in IdSuffixes }
    \cup NotAString

RegistryInit ==
  /\ DriverIdle /\ pk = IdlePacking /\ IdleExcept("rg")
  /\ \E trialId \in SomeTrialIds : \E localRegistrations \in BOOLEAN :
       rg = [ at |-> "called", trialId |-> trialId,
              localRegistrations |-> localRegistrations,
              registryType |-> "none", adapters |-> <<>>, cached |-> FALSE ]

RegistryFrame == UNCHANGED << driverVars, pk, lv, sm, dc, df, ch, pq, rq, rb >>

\* registrationDiscovery up to the call of the adapter, or to its throw
RegistryDetect ==
  /\ rg.at = "called"
  /\ LET registryType == DetectRegistryType(rg.trialId)
     IN  rg' = [ rg EXCEPT
           !.registryType = registryType,
           !.at = IF registryType = REGISTRY_TYPES.UNKNOWN THEN "threw"
                  ELSE "fetching",
           !.adapters =
             CASE registryType = REGISTRY_TYPES.CTGOV ->
                    IF rg.localRegistrations THEN << "fetchCtgovRegistrationFs" >>
                    ELSE << "fetchCtgovRegistration" >>
               [] registryType = REGISTRY_TYPES.EUCTR -> << "discoverEuctrRegistration" >>
               [] registryType = REGISTRY_TYPES.DRKS -> << "discoverDrksRegistration" >>
               [] OTHER -> <<>> ]
  /\ RegistryFrame

\* the local file of the registration is missing: the API is asked
RegistryLocalMissing ==
  /\ rg.at = "fetching" /\ rg.adapters = << "fetchCtgovRegistrationFs" >>
  /\ rg' = [ rg EXCEPT !.adapters = Append(@, "fetchCtgovRegistration") ]
  /\ RegistryFrame

\* the adapter returns: the registration is cached and returned
RegistryReturns ==
  /\ rg.at = "fetching"
  /\ rg' = [ rg EXCEPT !.at = "returned", !.cached = TRUE ]
  /\ RegistryFrame

\* the adapter throws, and registrationDiscovery with it
RegistryAdapterThrows ==
  /\ rg.at = "fetching"
  /\ rg.adapters # << "fetchCtgovRegistrationFs" >>
  /\ rg' = [ rg EXCEPT !.at = "threw" ]
  /\ RegistryFrame

RegistryNext ==
  RegistryDetect \/ RegistryLocalMissing \/ RegistryReturns \/ RegistryAdapterThrows

RegistrySpec == RegistryInit /\ [][RegistryNext]_vars

(***************************************************************************)
(* The classification requests of an input table: the loop over the rows   *)
(* in stageResultGenPreparation, on tables that may name a trial in more   *)
(* than one row.  Identifiers are sequences of characters, so that the     *)
(* custom_id is the concatenation the template string builds.              *)
(***************************************************************************)
MaxTableRows == 3
MaxTrialPublications == 2

\* the identifier cells of a row after extractTrialId trimmed them; the
\* empty one is a row without identifier
TableIds == { << "N", "1" >>, << "N", "2" >>, <<>> }
TableTrials == TableIds \ { <<>> }

\* the pmid field of a publication; the empty one is a publication that has
\* no PMID
PmidFields == { << "1" >>, << "2" >>, <<>> }

\* `${trialId}__${pub.pmid}`
CustomId(trialId, pmid) == trialId \o << "_", "_" >> \o pmid

\* publications.filter((pub) => !!pub?.pmid)
WithPmids(publications) == SelectSeq(publications, LAMBDA pmid : pmid # <<>>)

\* the custom ids of the requests built for one row
RowCustomIds(trialId, registrations, publications) ==
  IF trialId = <<>> THEN <<>>
  ELSE IF trialId \notin registrations \/ ~publications[trialId].has THEN <<>>
  ELSE LET withPmids == WithPmids(publications[trialId].pmids) IN
       [ k \in 1..Len(withPmids) |-> CustomId(trialId, withPmids[k]) ]

\* the custom ids of all requests, in the order the chunks receive them
TableCustomIds(table, registrations, publications) ==
  FlattenSeq([ r \in 1..Len(table) |->
                 RowCustomIds(table[r], registrations, publications) ])

\* what PUB_DISCOVERY stores for a trial: nothing, or the deduplicated
\* publications, each PMID at most once
StoredPublications ==
  { [ has |-> FALSE, pmids |-> <<>> ] } \cup
  { [ has |-> TRUE, pmids |-> ps ] :
      ps \in { s \in SeqsUpTo(PmidFields, MaxTrialPublications) :
                 \A a, b \in DOMAIN s : (a # b /\ s[a] # <<>>) => s[a] # s[b] } }

RequestInit ==
  /\ DriverIdle
  /\ pk = IdlePacking
  /\ IdleExcept("rq")
  /\ \E table \in SeqsUpTo(TableIds, MaxTableRows),
        registrations \in SUBSET TableTrials,
        publications \in [ TableTrials -> StoredPublications ] :
       rq = [ at |-> "prepared", table |-> table, registrations |-> registrations,
              publications |-> publications, customIds |-> <<>> ]

RequestFrame == UNCHANGED << driverVars, pk, lv, sm, dc, df, ch, pq, rg, rb >>

RequestBuild ==
  /\ rq.at = "prepared"
  /\ rq' = [ rq EXCEPT !.at = "built",
               !.customIds = TableCustomIds(rq.table, rq.registrations, rq.publications) ]
  /\ RequestFrame

RequestNext == RequestBuild

RequestSpec == RequestInit /\ [][RequestNext]_vars

(***************************************************************************)
(* The bodies of the batch requests: the query-generation requests of      *)
(* QUERY_GEN_UPLOAD and the classification requests of                     *)
(* RESULT_GEN_PREPARATION, built from two registrations.  An object is a   *)
(* function on the keys it has; JSON.stringify writes the keys in order.   *)
(***************************************************************************)
\* a field the registry adapter did not set
Absent == "undefined"

RegistrationKeys == << "trialId", "title", "hasResults", "publicationPmid" >>

\* the fields a request must not depend on
SensitiveKeys == { "hasResults", "publicationPmid" }

RegistrationOf(trialId, title, hasResults, publicationPmid) ==
  LET all == [ trialId |-> trialId, title |-> title, hasResults |-> hasResults,
               publicationPmid |-> publicationPmid ]
  IN  [ k \in { f \in DOMAIN all : all[f] # Absent } |-> all[k] ]

SomeRegistrations ==
  { RegistrationOf(trialId, title, hasResults, publicationPmid) :
      trialId \in {"N1", "N2"}, title \in {"a", "b"},
      hasResults \in {Absent, "true", "false"},
      publicationPmid \in {Absent, "1", "2"} }

\* "const { key, ...rest } = object"
Without(object, keys) == [ k \in DOMAIN object \ keys |-> object[k] ]

\* JSON.stringify of a flat object
Stringify(object) ==
  LET present == SelectSeq(RegistrationKeys, LAMBDA k : k \in DOMAIN object)
  IN  [ n \in 1..Len(present) |-> << present[n], object[present[n]] >> ]

\* the request of one trial in batch_queries_v1.jsonl / batch_queries_v2.jsonl
QueryRequest(variant, registration) ==
  [ custom_id |-> registration.trialId,
    developer |-> variant,
    user      |-> Stringify(registration) ]

\* the classification request of one (trial, publication) pair
ClassificationRequest(registration, pmid) ==
  [ custom_id |-> CustomId(<< registration.trialId >>, << pmid >>),
    developer |-> "results",
    user      |-> << Stringify(Without(registration, {"hasResults"})), pmid >> ]

NoBody == [ built |-> FALSE ]

BodyInit ==
  /\ DriverIdle
  /\ pk = IdlePacking
  /\ IdleExcept("rb")
  /\ \E first \in SomeRegistrations, second \in SomeRegistrations :
       rb = [ at |-> "stored", first |-> first, second |-> second,
              v1 |-> NoBody, v2 |-> NoBody, results |-> NoBody ]

BodyFrame == UNCHANGED << driverVars, pk, lv, sm, dc, df, ch, pq, rg, rq >>

BodyQueryV1 ==
  /\ rb.at = "stored" /\ ~rb.v1.built
  /\ rb' = [ rb EXCEPT !.v1 = [ built |-> TRUE,
                                first |-> QueryRequest("v1", rb.first),
                                second |-> QueryRequest("v1", rb.second) ] ]
  /\ BodyFrame

BodyQueryV2 ==
  /\ rb.at = "stored" /\ ~rb.v2.built
  /\ rb' = [ rb EXCEPT !.v2 = [ built |-> TRUE,
                                first |-> QueryRequest("v2", rb.first),
                                second |-> QueryRequest("v2", rb.second) ] ]
  /\ BodyFrame

BodyClassification ==
  /\ rb.at = "stored" /\ ~rb.results.built
  /\ rb' = [ rb EXCEPT !.results = [ built |-> TRUE,
                                     first |-> ClassificationRequest(rb.first, "7"),
                                     second |-> ClassificationRequest(rb.second, "7") ] ]
  /\ BodyFrame

BodyNext == BodyQueryV1 \/ BodyQueryV2 \/ BodyClassification

BodySpec == BodyInit /\ [][BodyNext]_vars

(***************************************************************************)
(* Properties of the batch driver.                                         *)
(***************************************************************************)
Halted == pc \in {"stopped", "failed", "exhausted"}

\* the result store the classifier's answers leave behind
AnsweredStore ==
  [ pr \in Pairs |-> IF llmAnswer[pr] \in {"pos", "neg"} THEN llmAnswer[pr] ELSE "none" ]

\* the summary table of the run nothing interrupts, under the answers the
\* services gave
UninterruptedTable ==
  FlattenSeq([ r \in 1..Len(rows) |->
    IF rows[r] # NoId /\ regAnswer[rows[r]] = "ok" /\ pubAnswer[rows[r]].kind = "ok"
    THEN << Summary(AnsweredStore, rows[r], pubAnswer[rows[r]]) >>
    ELSE <<>> ])

IssuesCall ==
  \/ PrepFetch \/ PubDiscover
  \/ QguUploadFile \/ QguCreateBatch \/ QgpRetrieve \/ QgpNoOutput \/ QgprocDownload
  \/ RguCreateBatch \/ RgpPoll \/ RgpPollThrows \/ RgprocChunk

\* C2: every change of Progress is in the Progress file before the next
\* external call is issued; RESULT_GEN_UPLOAD issues no upload and creates no
\* batch while a chunk's uploaded status or the daily token count is unwritten.
SavedBeforeCall ==
  [][ /\ IssuesCall => ~Dirty
      /\ RguStart => progress' = LoadProgress(disk) ]_vars

\* C3: at most one batch job is ever created for a result-detection chunk.
BatchCreatedOnce == \A c \in ChunkSlots : created[c] <= 1

\* C4: the estimated tokens of the batches created on one day never exceed
\* batch.maxTokensPerDay.
DailyBudgetKept == \A d \in 1..MaxDay : createdTok[d] <= config.maxTokensPerDay

\* C5: every written chunk holds at most maxRequestsPerBatch requests and at
\* most floor(maxBytesPerBatch * safetyBuffer) bytes, whatever the request sizes.
ChunksWithinLimits ==
  pk.at = "written" =>
    \A k \in DOMAIN pk.written :
      /\ pk.written[k].requestCount <= pk.lim.maxRequestsPerBatch
      /\ pk.written[k].sizeBytes <= pk.lim.effectiveMaxBytes

\* C6: the status of a chunk in the Progress file only moves forward along
\* pending, uploaded, in flight, completed, processed, across crashes and
\* restarts too.
ChunkStatusForward ==
  disk.kind = "ok" =>
    \A c \in DOMAIN disk.data.resultDetection.chunks :
      WrittenRank(disk.data, c) >= chunkHigh[c]

\* the edges of the stage machine, the skip edges and the loop-back
StageEdges ==
  { << STAGES.PREP, STAGES.QUERY_GEN_UPLOAD >>,
    << STAGES.QUERY_GEN_UPLOAD, STAGES.QUERY_GEN_POLL >>,
    << STAGES.QUERY_GEN_POLL, STAGES.QUERY_GEN_PROCESS >>,
    << STAGES.QUERY_GEN_PROCESS, STAGES.PUB_DISCOVERY >>,
    << STAGES.PUB_DISCOVERY, STAGES.RESULT_GEN_PREPARATION >>,
    << STAGES.RESULT_GEN_PREPARATION, STAGES.RESULT_GEN_UPLOAD >>,
    << STAGES.RESULT_GEN_UPLOAD, STAGES.RESULT_GEN_POLL >>,
    << STAGES.RESULT_GEN_POLL, STAGES.RESULT_GEN_PROCESS >>,
    << STAGES.RESULT_GEN_PROCESS, STAGES.FINALIZE >>,
    << STAGES.FINALIZE, STAGES.COST_CALCULATION >>,
    << STAGES.COST_CALCULATION, STAGES.COMPLETE >>,
    << STAGES.QUERY_GEN_UPLOAD, STAGES.PUB_DISCOVERY >>,
    << STAGES.RESULT_GEN_PREPARATION, STAGES.FINALIZE >>,
    << STAGES.RESULT_GEN_PROCESS, STAGES.RESULT_GEN_UPLOAD >> }

AlongEdge(from, to) == from = to \/ << from, to >> \in StageEdges

\* C7: Progress.stage changes along the edges of the stage machine only, in
\* the running process and from one written Progress file to the next.
StageAlongEdges ==
  [][ /\ (Running /\ ~Halted') => AlongEdge(progress.stage, progress'.stage)
      /\ AlongEdge(lastGood.data.stage, lastGood'.data.stage) ]_vars

\* C8: a restart that finds a Progress file resumes at the stage the file
\* holds, with the registrations, publications, batch jobs and chunk states
\* it holds, and the stage a run starts is the stage of its Progress.
ResumesWherePersisted ==
  [][ /\ (Halted /\ pc' = "main" /\ disk.kind = "ok") =>
           /\ progress'.stage = disk.data.stage
           /\ progress'.registrations = disk.data.registrations
           /\ progress'.publications = disk.data.publications
           /\ progress'.queryGenV1 = disk.data.queryGenV1
           /\ progress'.queryGenV2 = disk.data.queryGenV2
           /\ progress'.resultDetection = disk.data.resultDetection
      /\ (cur' # cur /\ cur' # "none") => cur' = progress.stage ]_vars

\* C8, witness: a batch expired under the poll, the run stopped, and the new
\* process is back at RESULT_GEN_POLL with the chunk as the file holds it.
ResumedAtPoll ==
  /\ pc = "main" /\ progress.stage = STAGES.RESULT_GEN_POLL
  /\ svc[1] = "expired"
  /\ progress.resultDetection.chunks[1].status \in PolledStatuses
  /\ progress.registrations = {"T1"}

\* C9: whatever the point of the crash, a write of the Progress file included,
\* the new process loads the last Progress whose write completed.
LoadsLastCompletedWrite ==
  [][ (Halted /\ pc' = "main") => progress' = LoadProgress(lastGood) ]_vars

\* every chunk is processed and the run is at COMPLETE
Completed ==
  /\ pc = "done" /\ progress.stage = STAGES.COMPLETE
  /\ \A c \in DOMAIN progress.resultDetection.chunks :
       progress.resultDetection.chunks[c].status = "processed"

\* a written chunk is estimated above the daily budget
ChunkOverBudget ==
  /\ disk.kind = "ok"
  /\ \E c \in DOMAIN disk.data.resultDetection.chunks :
       disk.data.resultDetection.chunks[c].estimatedTokens > config.maxTokensPerDay

\* C10, as stated: when every batch completes with output and the driver is
\* restarted on a later day after each daily-budget stop, every chunk is
\* uploaded and processed and the run reaches COMPLETE.
EventuallyCompleted == <>Completed

\* C10, amended: the same, for the runs none of whose chunks is estimated
\* above batch.maxTokensPerDay.
FittingChunksCompleted == <>(Completed \/ ChunkOverBudget)

\* C10, witness: the run stopped on the daily budget with two chunks, each
\* within the budget, one of them still pending.
BudgetStopWithFittingChunks ==
  /\ pc = "exhausted" /\ ~ChunkOverBudget
  /\ Len(disk.data.resultDetection.chunks) = 2
  /\ disk.data.resultDetection.chunks[2].status = "pending"

\* what is left of the day's budget, as the Progress file and the date give it
BudgetLeft(rd, today) ==
  config.maxTokensPerDay - (IF rd.date = today THEN rd.tokens ELSE 0)

\* pending chunks exist and none of them fits what is left of the day
NoneFits(rd, today) ==
  /\ PendingChunks(rd) # <<>>
  /\ \A k \in Range(PendingChunks(rd)) :
       rd.chunks[k].estimatedTokens > BudgetLeft(rd, today)

\* C11: when RESULT_GEN_UPLOAD finds pending chunks none of which fits the
\* rest of the daily budget, it stops with the daily-budget error: no upload
\* is started, no batch is created, and the Progress file stays as it was,
\* at stage RESULT_GEN_UPLOAD.
BudgetStopLeavesProgress ==
  [][ /\ (AtUpload /\ NoneFits(progress.resultDetection, day) /\ pc' # pc /\ pc' # "stopped")
         => pc' = "exhausted"
      /\ (pc # "exhausted" /\ pc' = "exhausted")
         => /\ disk' = disk /\ disk.kind = "ok"
            /\ disk.data.stage = STAGES.RESULT_GEN_UPLOAD
            /\ created' = created /\ createdTok' = createdTok
            /\ svc' = svc /\ inputFiles' = inputFiles ]_vars

\* C11, witness: the run stopped on the daily budget on the day it had
\* uploaded and processed its first chunk.
BudgetStopAfterFirstChunk ==
  /\ pc = "exhausted" /\ day = 1 /\ kills = 0
  /\ disk.data.resultDetection.chunks[1].status = "processed"
  /\ NoneFits(disk.data.resultDetection, day)

\* C12: whatever the crashes of the live driver, every row of the output CSV
\* has its trial's JSON sidecar behind it, whole.
CsvRowHasSidecar ==
  \A k \in 1..Len(lv.csv) : lv.json[lv.csv[k].row] = "written"

\* a summary with tool_results has a result PMID, and its result PMIDs are
\* among the prompted ones
ResultPmidsSound(summary) ==
  summary.tool_results =>
    /\ Len(summary.tool_result_pmids) >= 1
    /\ Range(summary.tool_result_pmids) \subseteq Range(summary.tool_prompted_pmids)

\* C13: every summary built by FINALIZE or by the live driver with
\* tool_results = true lists at least one result PMID, and every result PMID
\* is among the prompted PMIDs.
SummariesSound ==
  /\ "live" \in sm.built => ResultPmidsSound(sm.live)
  /\ "batch" \in sm.built => ResultPmidsSound(sm.batch)

\* C13, witness: both summaries are built with tool_results = true for a
\* trial one of whose publications has no PMID.
PositiveSummariesBuilt ==
  /\ sm.built = {"live", "batch"}
  /\ sm.live.tool_results /\ sm.batch.tool_results
  /\ \E k \in DOMAIN sm.pubs : sm.pubs[k].pmid = NoPmid

\* the tags of the strategies that returned the PMID
StrategiesReturning(pmid) ==
  { Strategies[s] : s \in { t \in DOMAIN Strategies :
                              /\ dc.outcomes[t].kind = "results"
                              /\ pmid \in Range(dc.outcomes[t].pmids) } }

\* C14: in the list publicationDiscovery returns, no two entries share a
\* PMID, and the sources of each entry are, without repetition, the tags of
\* the strategies that returned its PMID.
PublicationsUniqueWithSources ==
  dc.at = "returned" =>
    /\ \A j, k \in DOMAIN dc.publications :
         j # k => dc.publications[j].pmid # dc.publications[k].pmid
    /\ \A k \in DOMAIN dc.publications :
         /\ Range(dc.publications[k].sources)
              = StrategiesReturning(dc.publications[k].pmid)
         /\ Len(dc.publications[k].sources)
              = Cardinality(Range(dc.publications[k].sources))

\* C14, witness: two strategies returned one PMID and the third another; the
\* list returned has two entries, with two sources and with one.
TwoEntriesFromThreeStrategies ==
  /\ dc.at = "returned"
  /\ \A s \in DOMAIN Strategies :
       dc.outcomes[s].kind = "results" /\ Len(dc.outcomes[s].pmids) = 1
  /\ dc.outcomes[1].pmids = dc.outcomes[2].pmids
  /\ dc.outcomes[3].pmids # dc.outcomes[1].pmids
  /\ Len(dc.publications) = 2
  /\ { Len(dc.publications[k].sources) : k \in DOMAIN dc.publications } = {1, 2}

\* the strategies that threw, and those that threw with a message
Failing == { s \in DOMAIN Strategies : dc.outcomes[s].kind = "throws" }
FailingWithMessage == { s \in Failing : dc.outcomes[s].message # "" }

\* the candidates of the strategies that did not fail, tagged, in the order
\* of the strategies
CandidatesOfTheOthers ==
  FlattenSeq([ s \in DOMAIN Strategies |->
                 [ k \in 1..Len(dc.outcomes[s].pmids) |->
                     [ pmid |-> dc.outcomes[s].pmids[k], doi |-> Undefined,
                       sources |-> << Strategies[s] >> ] ] ])

Dated == { k \in DOMAIN df.publications : df.publications[k].publicationDate \in Dates }
Undated == { k \in DOMAIN df.publications : df.publications[k].publicationDate = NoDate }
Misdated ==
  { k \in DOMAIN df.publications : df.publications[k].publicationDate = InvalidDate }

\* what the min-date filter owes for the cutoff
MinFiltered(result) ==
  /\ \A e \in Range(result.eligible) :
       e.publicationDate \in Dates => e.publicationDate >= df.cutoff
  /\ \A k \in Undated : df.publications[k] \in Range(result.eligible)
  /\ \A k \in Dated :
       df.publications[k].publicationDate < df.cutoff
         => df.publications[k] \in Range(result.filtered)

\* C15: after the min-date filter with the registration's startDate, alone
\* or within PUB_DISCOVERY, no eligible publication is dated before
\* startDate, every publication without a date is eligible, and every
\* publication dated before startDate is in filtered.
MinDateFilterKeepsFromStart ==
  /\ ("min" \in df.done /\ ~df.min.threw) => MinFiltered(df.min)
  /\ ("stage" \in df.done /\ ~df.stage.threw /\ df.cutoff # NoDate)
       => MinFiltered(df.stage)

\* C15, witness: candidates A dated before startDate, B dated after it and C
\* without a date give eligible = [B, C], from the filter and from the stage.
MinDateExample ==
  /\ {"min", "stage"} \subseteq df.done /\ ~df.validationRun
  /\ df.cutoff = 2
  /\ df.publications = << [ pmid |-> 1, publicationDate |-> 1 ],
                          [ pmid |-> 2, publicationDate |-> 3 ],
                          [ pmid |-> 3, publicationDate |-> NoDate ] >>
  /\ df.min.eligible = << df.publications[2], df.publications[3] >>
  /\ df.min.filtered = << df.publications[1] >>
  /\ df.stage.eligible = df.min.eligible

\* C16 as stated: with a valid cutoff both filters return {eligible,
\* filtered} whatever dates are missing; a publication whose date is an
\* invalid string is not eligible for maxDateFilter and is eligible for
\* minDateFilter.
InvalidDatesMaxDropsMinRetains ==
  df.cutoff \in Dates =>
    /\ "max" \in df.done =>
         /\ ~df.max.threw
         /\ \A k \in Misdated : df.publications[k] \notin Range(df.max.eligible)
    /\ "min" \in df.done =>
         /\ ~df.min.threw
         /\ \A k \in Misdated : df.publications[k] \in Range(df.min.eligible)

\* C18 as stated: at most one producer for the key is in flight at any
\* time, and calls that overlapped return the same result.
SingleFlight ==
  /\ Cardinality(InFlight(ch.calls)) <= 1
  /\ \A c, d \in Callers :
       (/\ ch.calls[c].at = "returned" /\ ch.calls[d].at = "returned"
        /\ ch.calls[c].overlapped /\ ch.calls[d].overlapped)
         => ch.calls[c].result = ch.calls[d].result

\* the entry the call read is served from the file
Served(call) ==
  \/ call.seen.kind = "legacy"
  \/ /\ call.seen.kind = "enveloped"
     /\ \/ call.seen.ttl = NoTtl
        \/ call.seenAt - call.seen.timestamp < call.seen.ttl

RequestsInFlight == { c \in PubmedCalls : pq.calls[c] \in {"running", "abandoned"} }

\* C20 as stated: at every moment at most 4 PubMed requests issued through
\* the queue are in flight, however many calls are enqueued.
AtMostFourInFlight == Cardinality(RequestsInFlight) <= Concurrency

\* C21: detectRegistryType gives one of ctgov, euctr, drks, unknown for every
\* input, unknown for an input that is empty or no string, and
\* registrationDiscovery calls no adapter for an id detected as unknown: it
\* throws instead.
UnknownReachesNoAdapter ==
  rg.at # "called" =>
    /\ rg.registryType \in Range(REGISTRY_TYPES)
    /\ (rg.trialId.type # "string" \/ rg.trialId.chars = <<>>)
         => rg.registryType = REGISTRY_TYPES.UNKNOWN
    /\ rg.registryType = REGISTRY_TYPES.UNKNOWN
         => rg.adapters = <<>> /\ rg.at = "threw" /\ ~rg.cached

\* C21, witness: an id that is no string of a registry ("NCT" and seven
\* digits) was detected as unknown and registrationDiscovery threw.
UnknownIdRejected ==
  /\ rg.at = "threw" /\ rg.registryType = REGISTRY_TYPES.UNKNOWN
  /\ rg.trialId = Str(<<"N", "C", "T">> \o Digits(7))
  /\ rg.adapters = <<>>

\* the packed requests that are larger than the effective cap by themselves
OversizedRequests ==
  { r \in UNION { Range(c.requests) : c \in Range(FinishPacking(pk.st)) } :
      r.bytes > pk.lim.effectiveMaxBytes }

\* C22 as stated: when a single request is larger than
\* floor(maxBytesPerBatch * safetyBuffer), RESULT_GEN_PREPARATION raises an
\* error: no chunk is written and no chunk metadata is kept.
OversizedRequestRaises ==
  (pk.at = "written" /\ OversizedRequests # {}) => pk.written = <<>>

\* C23, as stated: the custom ids of all classification requests of a run
\* are pairwise distinct, whatever the input table and the publications.
CustomIdsPairwiseDistinct ==
  rq.at = "built" =>
    \A a, b \in DOMAIN rq.customIds : a # b => rq.customIds[a] # rq.customIds[b]

\* what holds of the custom ids: two requests share one only when two rows
\* of the table name the same trial.
CustomIdsDistinctPerTrial ==
  rq.at = "built" =>
    \A a, b \in DOMAIN rq.customIds :
      (a # b /\ rq.customIds[a] = rq.customIds[b]) =>
        \E r1, r2 \in DOMAIN rq.table : r1 # r2 /\ rq.table[r1] = rq.table[r2]

\* the stages behind PUB_DISCOVERY
AfterPubDiscovery ==
  { STAGES.RESULT_GEN_PREPARATION, STAGES.RESULT_GEN_UPLOAD, STAGES.RESULT_GEN_POLL,
    STAGES.RESULT_GEN_PROCESS, STAGES.FINALIZE, STAGES.COST_CALCULATION, STAGES.COMPLETE }

\* PUB_DISCOVERY left no pair of a registered trial and a publication with PMID
NoPairDiscovered ==
  progress.stage \in AfterPubDiscovery /\ Requests(progress) = <<>>

\* no chunk is recorded, no result-detection batch was created, and every
\* summary row says tool_results = false
NothingToDetect ==
  /\ ~progress.resultDetection.has
  /\ \A k \in DOMAIN created : created[k] = 0
  /\ progress.stage \notin { STAGES.RESULT_GEN_UPLOAD, STAGES.RESULT_GEN_POLL,
                              STAGES.RESULT_GEN_PROCESS }
  /\ \A n \in DOMAIN csv : ~csv[n].tool_results

\* C24: when PUB_DISCOVERY leaves no pair of a trial and a publication with
\* PMID (with no strategy enabled it always does), RESULT_GEN_PREPARATION
\* records no chunk, no result-detection batch is ever created, the stage goes
\* from RESULT_GEN_PREPARATION straight to FINALIZE, and every trial's
\* tool_results is false.
NoPairsStraightToFinalize ==
  /\ [](NoPairDiscovered => NothingToDetect)
  /\ []((config.strategies = {} /\ progress.stage \in AfterPubDiscovery) => NoPairDiscovered)
  /\ [][(NoPairDiscovered /\ progress.stage = STAGES.RESULT_GEN_PREPARATION
          /\ pc' # "stopped" /\ progress'.stage # progress.stage)
            => progress'.stage = STAGES.FINALIZE]_vars

\* C24, witness: a run without enabled strategy has completed with a summary
\* row and without any batch.
NoStrategyRunCompleted ==
  /\ pc = "done" /\ config.strategies = {} /\ csv # <<>>
  /\ NoPairDiscovered /\ NothingToDetect

\* C25: the tool_ident_steps of a summary row are enabled strategies, and
\* every strategy in the sources of a publication classified hasResults =
\* true is among them.
IdentStepsBetweenPositivesAndEnabled ==
  dc.at = "summarised" =>
    /\ Range(dc.toolIdentSteps) \subseteq Range(Strategies)
    /\ \A k \in DOMAIN dc.detectionResults :
         dc.detectionResults[k].hasResults =>
           Range(dc.detectionResults[k].sources) \subseteq Range(dc.toolIdentSteps)

\* C25, witness: two publications were classified positive, found by
\* different strategies, a third strategy found only a negative one, and the
\* steps name the first two strategies.
TwoPositivesTwoSteps ==
  /\ dc.at = "summarised"
  /\ Len(dc.detectionResults) = 2
  /\ dc.detectionResults[1].hasResults /\ dc.detectionResults[2].hasResults
  /\ dc.detectionResults[1].sources # dc.detectionResults[2].sources
  /\ Len(dc.toolIdentSteps) = 2

\* the entry the Progress file of the live driver holds for a row
FileEntry(r) == IF lv.file.kind = "ok" THEN lv.file.data[r] ELSE NoEntry

\* a run of the live driver starts: loadProgress, then the plan
LiveRunStarts == lv.at = "stopped" /\ lv'.at = "loop"

\* the flags normalizeProgress takes for a finished row
BothWritten(entry) == entry.jsonWritten /\ entry.csvAppended

RECURSIVE TokensOf(_, _)
TokensOf(chunks, positions) ==
  IF positions = <<>> THEN 0
  ELSE chunks[Head(positions)].estimatedTokens + TokensOf(chunks, Tail(positions))

\* sel is the longest prefix of pending whose chunks fit the budget
LongestFittingPrefix(chunks, pending, sel, budget) ==
  /\ Len(sel) <= Len(pending)
  /\ sel = SubSeq(pending, 1, Len(sel))
  /\ TokensOf(chunks, sel) <= budget
  /\ Len(sel) < Len(pending)
       => TokensOf(chunks, SubSeq(pending, 1, Len(sel) + 1)) > budget

\* C27: RESULT_GEN_UPLOAD first sets dailyTokensUsed.tokens to 0 when
\* dailyTokensUsed.date is not today, then selects exactly the longest prefix,
\* in ascending index, of the pending chunks whose summed estimatedTokens is
\* within maxTokensPerDay - dailyTokensUsed.tokens; a batch is created for a
\* chunk only when every pending chunk of lower index is selected with it.
UploadSelectsLongestPrefix ==
  [][/\ (AtUpload /\ pc' \in {"RGU_par", "exhausted"}) =>
          LET before == progress.resultDetection
              tokens == IF before.date # day THEN 0 ELSE before.tokens
              pending == ChunksWithStatus(before.chunks, {"pending"})
              sel == IF pc' = "RGU_par" THEN loc'.sel ELSE <<>>
          IN  /\ pc' = "RGU_par" =>
                   /\ progress'.resultDetection.tokens = tokens
                   /\ progress'.resultDetection.date = day
                   /\ sel # <<>>
              /\ \A k \in 1..(Len(pending) - 1) : pending[k] < pending[k + 1]
              /\ LongestFittingPrefix(before.chunks, pending, sel,
                                      config.maxTokensPerDay - tokens)
     /\ \A c \in DOMAIN created :
          created'[c] > created[c] =>
            \A lower \in 1..(c - 1) :
              progress.resultDetection.chunks[lower].status = "pending"
                => lower \in Range(loc.sel)]_vars

\* C27, witness: on a new day the quota was reset and, of two pending
\* chunks, only the first fits and is selected.
PrefixSelectedAfterReset ==
  /\ pc = "RGU_par" /\ day > 1
  /\ progress.resultDetection.date = day
  /\ disk.kind = "ok" /\ disk.data.resultDetection.date # day
  /\ Len(loc.sel) = 1
  /\ Len(ChunksWithStatus(progress.resultDetection.chunks, {"pending"})) = 2

\* the stages behind result detection
FinalStages == { STAGES.FINALIZE, STAGES.COST_CALCULATION, STAGES.COMPLETE }

\* every recorded chunk of the Progress object is processed
AllChunksProcessed(p) ==
  \A c \in DOMAIN p.resultDetection.chunks :
    p.resultDetection.chunks[c].status = "processed"

\* C28, as stated: whenever the stage is FINALIZE, COST_CALCULATION or
\* COMPLETE and result-detection chunks exist, every chunk has status
\* processed, in the driver's Progress and in the Progress file.
FinalStagesAllProcessed ==
  /\ progress.stage \in FinalStages => AllChunksProcessed(progress)
  /\ (disk.kind = "ok" /\ disk.data.stage \in FinalStages) => AllChunksProcessed(disk.data)

\* the persisted stage, when the Progress file can be read
PersistedStage == IF disk.kind = "ok" THEN disk.data.stage ELSE "none"

\* a chunk (a variant) is completed and its output file id is recorded, in
\* the driver's Progress and in the Progress file
ChunkCompletedRecorded(c) ==
  /\ progress.resultDetection.chunks[c].status = "completed"
  /\ progress.resultDetection.chunks[c].hasOut
  /\ disk.kind = "ok"
  /\ disk.data.resultDetection.chunks[c].status = "completed"
  /\ disk.data.resultDetection.chunks[c].hasOut

VariantCompletedRecorded(v) ==
  /\ Job(progress, v).status = "completed" /\ Job(progress, v).out
  /\ disk.kind = "ok"
  /\ Job(disk.data, v).status = "completed" /\ Job(disk.data, v).out

\* the poll in progress has met a job that is failed, expired or cancelled,
\* or completed without output file id
ResultPollMetBadJob ==
  pc = "RGP_poll" /\ \E k \in DOMAIN loc.sel : svc[loc.sel[k]] \in BadStatuses

QueryPollMetBadJob ==
  \/ pc = "QGP_poll" /\ loc.queue # <<>> /\ qsvc[Head(loc.queue)] = "completed_no_output"
  \/ pc = "QGP_after" /\ loc.anyFailed

\* C29: a POLL stage advances to its PROCESS stage only when every polled
\* job is completed with its output file id recorded in Progress; when a
\* polled job is failed, expired or cancelled, or completed without output
\* file id, the stage raises an error and the persisted stage stays.
PollAdvancesOnlyCompleted ==
  [][/\ (progress.stage = STAGES.RESULT_GEN_POLL
          /\ progress'.stage = STAGES.RESULT_GEN_PROCESS)
         => \A k \in DOMAIN loc.sel : ChunkCompletedRecorded(loc.sel[k])
     /\ (progress.stage = STAGES.QUERY_GEN_POLL
          /\ progress'.stage = STAGES.QUERY_GEN_PROCESS)
         => \A v \in config.strategies : VariantCompletedRecorded(v)
     /\ ((ResultPollMetBadJob \/ QueryPollMetBadJob) /\ pc' # pc)
         => /\ pc' \in {"failed", "stopped"}
            /\ disk' = disk
            /\ PersistedStage \in {STAGES.RESULT_GEN_POLL, STAGES.QUERY_GEN_POLL}
     /\ (pc = "QGP_poll" /\ loc.queue # <<>> /\ qsvc[Head(loc.queue)] \in FailedStatuses
          /\ loc'.queue # loc.queue /\ pc' # "stopped")
         => loc'.anyFailed /\ progress'.stage = STAGES.QUERY_GEN_POLL]_vars

\* C29, witness: RESULT_GEN_POLL has thrown on an expired batch, and the
\* Progress file still names RESULT_GEN_POLL.
PollRaisedOnBadJob ==
  /\ pc = "failed" /\ PersistedStage = STAGES.RESULT_GEN_POLL
  /\ \E c \in DOMAIN svc : svc[c] = "expired"

\* C30, as stated: when QUERY_GEN_UPLOAD is entered again after a crash or
\* restart, no batch job is created for a variant whose batch job the
\* Progress already records, so that a run creates at most one batch job for
\* each enabled variant.
RecordedVariantNotUploadedAgain ==
  [][(pc = "QGU_create" /\ pc' = "save")
       => ~Job(progress, Head(loc.queue)).has]_vars

\* what the Progress file holds of registrations and publications; nothing
\* when the file cannot be read
StoredRegistrations == IF disk.kind = "ok" THEN disk.data.registrations ELSE {}
StoredPublicationsOf(t) ==
  IF disk.kind = "ok" THEN disk.data.publications[t] ELSE FreshProgress.publications[t]

\* a step keeps what the Progress file holds of registrations and
\* publications
KeepsStoredDiscoveries ==
  /\ StoredRegistrations \subseteq StoredRegistrations'
  /\ \A t \in DOMAIN FreshProgress.publications :
       StoredPublicationsOf(t).has => StoredPublicationsOf(t)' = StoredPublicationsOf(t)

\* C31, as stated: once registrations[trialId] is stored in Progress it is
\* never changed or removed for the rest of the run, restarts included, and
\* neither is publications[trialId].
StoredDiscoveriesKept == [][KeepsStoredDiscoveries]_vars

\* what holds of them: every step that is not a write of the Progress file
\* cut short by a kill keeps them
StoredDiscoveriesKeptByWholeWrites ==
  [][disk'.kind # "corrupt" => KeepsStoredDiscoveries]_vars

\* the PMIDs of the trial's publications for which no classification is
\* stored: every response line for them was an error or did not parse
MissingClassifications ==
  { pmid \in Pmids :
      /\ \E k \in DOMAIN sm.pubs : sm.pubs[k].pmid = pmid
      /\ \A k \in DOMAIN sm.pubs : sm.pubs[k].pmid = pmid => sm.pubs[k].verdict = "throw" }

\* C32: in the summary row of FINALIZE has_error is true exactly when the
\* trial has a publication-discovery error or an eligible publication with
\* PMID whose classification is missing; these PMIDs are the
\* failed_result_discoveries and none of them counts as a result.
HasErrorIffDiscoveryOrClassificationFailed ==
  "batch" \in sm.built =>
    /\ sm.batch.has_error <=> (sm.publicationErrors \/ MissingClassifications # {})
    /\ Range(sm.batch.failed_result_discoveries) = MissingClassifications
    /\ Range(sm.batch.tool_result_pmids) \cap MissingClassifications = {}

\* C32, witness: FINALIZE built a summary with has_error for a trial
\* without discovery error: one classification is missing, another is
\* positive.
ErrorFromMissingClassification ==
  /\ "batch" \in sm.built /\ ~sm.publicationErrors
  /\ sm.batch.has_error /\ sm.batch.tool_results
  /\ MissingClassifications # {}

\* the summary rows of the output table for a trial
SummaryRowsOf(t) == { n \in DOMAIN csv : csv[n].trial_id = t }

\* C33, as stated: at stage COMPLETE the output table holds exactly one
\* summary row for each input row that has a trial id, none missing and
\* none twice, re-entries of FINALIZE after a restart included.
OneSummaryRowPerTrial ==
  (disk.kind = "ok" /\ disk.data.stage = STAGES.COMPLETE) =>
    /\ \A r \in DOMAIN rows :
         ExtractTrialId(r) # NoId => Cardinality(SummaryRowsOf(ExtractTrialId(r))) = 1
    /\ Len(csv) = Cardinality({ r \in DOMAIN rows : ExtractTrialId(r) # NoId })

\* what holds of the table: no row is missing for a trial that has a
\* registration and publications, and a trial has a second row only after a
\* kill inside FINALIZE
SummaryRowsOfFinalizableTrials ==
  (disk.kind = "ok" /\ disk.data.stage = STAGES.COMPLETE) =>
    \A r \in DOMAIN rows :
      LET n == Cardinality(SummaryRowsOf(ExtractTrialId(r))) IN
      /\ Finalizable(disk.data, r) => n >= 1
      /\ (ExtractTrialId(r) # NoId /\ ~Finalizable(disk.data, r)) => n = 0
      /\ n > 1 => lateKill

\* the rows of the trial are recorded as failed in the Progress file
RowsRecordedFailed(t) ==
  \A r \in DOMAIN rows : ExtractTrialId(r) = t => disk.data.rowStatus[r] = "error"

\* C34: in PREP and PUB_DISCOVERY an exception raised for one row is
\* recorded as that row's status error, the loop goes on with the next row,
\* and the stage advances to its successor with the error on record.
RowFailureRecordedStageAdvances ==
  /\ [][/\ ((/\ pc = "PREP" /\ i \in DOMAIN rows /\ ExtractTrialId(i) # NoId
               /\ ExtractTrialId(i) \notin progress.registrations
               /\ regAnswer'[ExtractTrialId(i)] = "throw"
               /\ i' # i /\ pc' # "stopped")
              => (/\ progress'.rowStatus[i] = "error"
                  /\ progress'.stage = STAGES.PREP
                  /\ i' = i + 1 /\ pc' = "save" /\ ret' = "PREP"))
         /\ ((/\ pc = "PUB" /\ i \in DOMAIN rows /\ ExtractTrialId(i) # NoId
               /\ ExtractTrialId(i) \in progress.registrations
               /\ pubAnswer'[ExtractTrialId(i)].kind = "throw"
               /\ i' # i /\ pc' # "stopped")
              => (/\ progress'.rowStatus[i] = "error"
                  /\ progress'.stage = STAGES.PUB_DISCOVERY
                  /\ i' = i + 1 /\ pc' = "save" /\ ret' = "PUB"))]_vars
  /\ []((disk.kind = "ok" /\ disk.data.stage # STAGES.PREP) =>
          (\A t \in DOMAIN regAnswer :
             /\ (regAnswer[t] = "throw" => RowsRecordedFailed(t))
             /\ ((/\ regAnswer[t] = "ok" /\ pubAnswer[t].kind = "throw"
                   /\ disk.data.stage \in AfterPubDiscovery) => RowsRecordedFailed(t))))

\* C34, witness: publication discovery threw for the trial, the row without
\* trial id behind it was counted, and the run went on to COMPLETE.
FailedRowRunCompleted ==
  /\ pc = "done" /\ disk.kind = "ok" /\ disk.data.stage = STAGES.COMPLETE
  /\ \E r \in DOMAIN rows :
       /\ ExtractTrialId(r) # NoId
       /\ pubAnswer[ExtractTrialId(r)].kind = "throw"
       /\ disk.data.rowStatus[r] = "error"

\* the rows of the input table without a trial id
RowsWithoutTrialId == { r \in DOMAIN rows : ExtractTrialId(r) = NoId }

\* C35: at stage COMPLETE skippedCounts.noTrialId is the number of rows
\* without a trial id and skippedCounts.noRegistration the number of rows
\* with a trial id and no registration: every skipped row is counted once.
SkippedRowsCountedOnce ==
  (disk.kind = "ok" /\ disk.data.stage = STAGES.COMPLETE) =>
    /\ disk.data.skippedCounts.noTrialId = Cardinality(RowsWithoutTrialId)
    /\ disk.data.skippedCounts.noRegistration = Cardinality(UnregisteredRows(disk.data))

\* the same without restarts and with no strategy enabled
SkippedRowsCountedOnceInOnePass ==
  (disk.kind = "ok" /\ disk.data.stage = STAGES.COMPLETE
     /\ kills = 0 /\ config.strategies = {}) =>
    /\ disk.data.skippedCounts.noTrialId = Cardinality(RowsWithoutTrialId)
    /\ disk.data.skippedCounts.noRegistration = Cardinality(UnregisteredRows(disk.data))

\* C36: the JSON sidecar FINALIZE writes for a trial lists, as filtered,
\* exactly the publications the max-date and min-date filters removed for
\* the trial in PUB_DISCOVERY.
SidecarListsFilteredPublications ==
  "payload" \in df.done =>
    df.payload.publicationsFilteredByStartDate = df.stage.filtered

\* what the sidecar holds: the eligible publications, and no filtered one
SidecarFilteredListEmpty ==
  "payload" \in df.done =>
    /\ df.payload.publications = df.stage.eligible
    /\ df.payload.publicationsFilteredByStartDate = <<>>

\* the two registrations differ at most in the given fields
DifferOnlyIn(keys) == Without(rb.first, keys) = Without(rb.second, keys)

\* C37: two registrations that differ only in hasResults or publicationPmid
\* produce identical request bodies, for query generation (V1, V2) and for
\* classification.
RequestsIgnoreSensitiveFields ==
  DifferOnlyIn(SensitiveKeys) =>
    /\ rb.v1.built => rb.v1.first = rb.v1.second
    /\ rb.v2.built => rb.v2.first = rb.v2.second
    /\ rb.results.built => rb.results.first = rb.results.second

\* what holds: the classification request ignores hasResults, and nothing else
ClassificationIgnoresHasResults ==
  rb.results.built =>
    (DifferOnlyIn({"hasResults"}) <=> rb.results.first = rb.results.second)

\* the query requests carry the whole registration
QueryCarriesWholeRegistration ==
  rb.v1.built => (rb.first = rb.second <=> rb.v1.first = rb.v1.second)

\* the Progress file is written whole, with a dailyTokensUsed in it
WritesTokenCount ==
  /\ disk' # disk /\ disk'.kind = "ok"
  /\ disk'.data.resultDetection.has
  /\ disk'.data.resultDetection.date \in 1..MaxDay

\* C38: in every persisted Progress state dailyTokensUsed.tokens is the sum
\* of estimatedTokens of the chunks whose batch was created on
\* dailyTokensUsed.date: no increment is lost and none is applied twice.
TokenCountMatchesCreatedBatches ==
  [][WritesTokenCount =>
       disk'.data.resultDetection.tokens
         = createdTok'[disk'.data.resultDetection.date]]_vars

\* the same for the runs in which no process was killed and no call failed
TokenCountMatchesWithoutFailures ==
  [][(WritesTokenCount /\ kills' = 0) =>
       disk'.data.resultDetection.tokens
         = createdTok'[disk'.data.resultDetection.date]]_vars

\* the summary rows the output CSV of the live driver holds for a row
LiveSummaryRowsOf(r) == { n \in DOMAIN lv.csv : lv.csv[n].row = r }

\* C39: in the live driver, whatever the crash point inside processRow, the
\* output CSV holds at most one summary row for every input row: a row whose
\* CSV line was appended before the crash is not appended again.
LiveRowAppendedAtMostOnce ==
  lv.at # "idle" =>
    \A r \in DOMAIN LiveTable : Cardinality(LiveSummaryRowsOf(r)) <= 1

\* a row whose csvAppended flag reached the progress file is not appended
\* again, unless failed rows are retried
LiveRecordedAppendNotRepeated ==
  [][(lv.at = "append" /\ lv'.at = "save" /\ ~lv.retryErrors) =>
       (lv.file.kind = "ok" => ~lv.file.data[Head(lv.plan)].csvAppended)]_vars

\* the status of a chunk in the Progress file
StoredChunkStatus(c) ==
  IF disk.kind = "ok" /\ c \in DOMAIN disk.data.resultDetection.chunks
  THEN disk.data.resultDetection.chunks[c].status ELSE "none"

\* the output of the chunk was downloaded and every response line that
\* parsed has its classification record
ChunkRecordsWritten(c) ==
  \A pr \in Range(inputFiles[c]) :
    /\ llmAnswer[pr] # "?"
    /\ llmAnswer[pr] # "err" => results[pr] = llmAnswer[pr]

\* a chunk becomes processed, in the Progress file or in the driver's Progress,
\* only with its records written
MarkedProcessedAfterRecords(c) ==
  /\ (StoredChunkStatus(c)' = "processed" /\ StoredChunkStatus(c) # "processed")
       => ChunkRecordsWritten(c)'
  /\ (/\ c \in DOMAIN progress.resultDetection.chunks
      /\ c \in DOMAIN progress'.resultDetection.chunks
      /\ progress.resultDetection.chunks[c].status = "completed"
      /\ progress'.resultDetection.chunks[c].status = "processed")
       => ChunkRecordsWritten(c)'

\* the process stops inside RESULT_GEN_PROCESS
StopsInProcess ==
  cur = STAGES.RESULT_GEN_PROCESS /\ pc # "stopped" /\ pc' = "stopped"

\* C40: a chunk is marked processed, and persisted as such, only after its
\* output was downloaded and the record of every parsed line written; when the
\* process stops part-way through a chunk the chunk stays completed in the
\* Progress file.
ProcessedOnlyAfterRecordsElseCompleted ==
  [][\A c \in ChunkSlots :
       /\ MarkedProcessedAfterRecords(c)
       /\ (StopsInProcess /\ StoredChunkStatus(c) = "completed")
            => StoredChunkStatus(c)' = "completed"]_vars

\* the same for the stops that leave the Progress file whole, and the next
\* process takes up every completed chunk and writes all its records
ProcessedOnlyAfterRecordsWholeWrites ==
  [][\A c \in ChunkSlots :
       /\ MarkedProcessedAfterRecords(c)
       /\ (StopsInProcess /\ StoredChunkStatus(c) = "completed" /\ disk'.kind # "corrupt")
            => StoredChunkStatus(c)' = "completed"
       /\ (pc = "main" /\ pc' = "RGPROC" /\ StoredChunkStatus(c) = "completed")
            => c \in Range(loc'.queue)
       /\ (pc = "RGPROC" /\ pc' = "save" /\ ret' = "RGPROC" /\ c = Head(loc.queue))
            => ChunkRecordsWritten(c)']_vars

====
